---- MODULE Spec2Model ----
(***************************************************************************)
(* The fork registry of forkmanager/fork.go: a height-ordered list of      *)
(* named forks, a name -> fork map, and per capability (handler name) a    *)
(* height-ordered table of handlers.                                       *)
(***************************************************************************)
EXTENDS Integers, Sequences, FiniteSets, TLC

\* ------------------------------------------------------------------ bounds

\* Block heights range over 0..MaxBlock.
MaxBlock == 2
\* RegisterFork is called only while the fork list is shorter than this.
MaxForks == 3
\* RegisterHandler is called only while the capability's table is shorter.
MaxHandlers == 2

\* The same three bounds for the runs with concurrent callers.
ConcMaxBlock == 1
ConcMaxForks == 2
ConcMaxHandlers == 2
\* Callers of GetInstance: the forks one instance is given, and their heights.
InstMaxForks == 2
InstMaxBlock == 1
\* Callers of the decoders: the byte values objects are filled with, and
\* the number of calls that go through the parser pool.
MaxFill == 2
MaxCalls == 1
\* Extra-data values: fields and strings range over 0..MaxExtra.
MaxExtra == 1
\* The deploy command: the number of contracts it is given to deploy.
MaxContracts == 3

\* --------------------------------------------------------------- constants

BaseFork == "basev1"
LondonFork == "london"

\* The fork names the callers use: the base fork and one more, which is
\* unknown to the registry until it is registered.
ForkNames == {BaseFork, LondonFork}
\* Capabilities (ForkHandlerName values) the callers use.
HandlerNames == {"extra"}
\* Handler implementations (opaque interface{} values) the callers pass.
Handlers == {"hA", "hB"}
Blocks == 0..MaxBlock
\* The goroutines that call the registry concurrently, and their heights.
Threads == {"t1", "t2"}
ConcBlocks == 0..ConcMaxBlock

\* The zero values Fork{} and ForkHandler{} that append() puts in place
\* before the copy.
NilHandler == "nil"
EmptyFork == [Name |-> "", FromBlockNumber |-> 0]
EmptyForkHandler == [FromBlockNumber |-> 0, Handler |-> NilHandler]

Fork(name, fromBlock) == [Name |-> name, FromBlockNumber |-> fromBlock]
ForkHandler(fromBlock, handler) == [FromBlockNumber |-> fromBlock, Handler |-> handler]

\* ------------------------------------------------------------------- state

VARIABLES
    forkMap,      \* fm.forkMap: ForkName -> Fork (a function on the known names)
    forks,        \* fm.forks: the fork list
    handlersMap,  \* fm.handlersMap: ForkHandlerName -> table of ForkHandler
    ret,          \* the most recent call and what it returned (sequential callers)
    lock,         \* fm.lock: the goroutine holding it, or NoHolder
    pc,           \* per goroutine: where it is in its call
    loc,          \* per goroutine: the call's arguments, locals and result
    forkManagerInstance,      \* the package variable: a reference, or Nil
    forkManagerInstanceLock,  \* the package mutex: its holder, or NoHolder
    heap,         \* the forkManager objects constructed so far, by reference
    gpc,          \* per goroutine: where it is in GetInstance
    gref,         \* per goroutine: the reference its last GetInstance returned
    pool,         \* fastrlp.DefaultParserPool: parsers taken (got) and put back (put)
    hdr,          \* the Header its owner decodes into again and again, once it has one
    dec,          \* the most recent decoder call: target before, input, outcome
    ext,          \* the most recent extra-data handler call: handler, input, outcome
    dep           \* one run of the rootchain deploy command: positions, locals, effects

registry == <<forkMap, forks, handlersMap>>
cvars == <<lock, pc, loc>>
ivars == <<forkManagerInstance, forkManagerInstanceLock, heap, gpc, gref>>
dvars == <<pool, hdr, dec>>
\* What the registry's own operations never touch.
ovars == <<ivars, dvars, ext, dep>>
\* What GetInstance never touches once the instance exists.
outsideInstance == <<forkMap, forks, handlersMap, ret, cvars, dvars, ext, dep>>
\* What the decoders never touch.
outsideDecoder == <<forkMap, forks, handlersMap, ret, cvars, ivars, ext, dep>>
\* What the extra-data handlers never touch.
outsideExtra == <<forkMap, forks, handlersMap, ret, cvars, ivars, dvars, dep>>
\* What the deploy command never touches.
outsideDeploy == <<forkMap, forks, handlersMap, ret, cvars, ivars, dvars, ext>>
vars == <<forkMap, forks, handlersMap, ret, lock, pc, loc, ivars, dvars, ext, dep>>

NoHolder == "none"
NoCall == [op |-> "none"]

\* ----------------------------------------------------------------- helpers

\* sort.Search(n, f): the smallest index i in [0, n] with f(i) true, found by
\* binary search; p is f tabulated on 0..n-1.
RECURSIVE SearchLoop(_, _, _)
SearchLoop(p, i, j) ==
    IF i < j
    THEN LET h == (i + j) \div 2
         IN  IF ~p[h] THEN SearchLoop(p, h + 1, j) ELSE SearchLoop(p, i, h)
    ELSE i

SortSearch(n, p) == SearchLoop(p, 0, n)

\* append(s, zero); copy(s[index+1:], s[index:]); s[index] = e, on a Go slice
\* s held as a sequence (Go index i is position i + 1).
AppendZero(s, zero) == Append(s, zero)

CopyUp(s, index) ==
    [k \in 1..Len(s) |-> IF k - 1 >= index + 1 THEN s[k - 1] ELSE s[k]]

SetAt(s, index, e) == [s EXCEPT ![index + 1] = e]

\* Mutant of InsertAt: the entry is appended, the index ignored.
InsertAt_Append(s, index, e, zero) == Append(s, e)

InsertAt(s, index, e, zero) == SetAt(CopyUp(AppendZero(s, zero), index), index, e)

\* The index RegisterFork inserts at.
ForkIndex(fs, fromBlock) ==
    SortSearch(Len(fs), [i \in 0..(Len(fs) - 1) |-> fs[i + 1].FromBlockNumber >= fromBlock])

\* Mutant of HandlerIndex: > for >=, the index after the entries of equal
\* height.
HandlerIndex_After(hs, fromBlock) ==
    SortSearch(Len(hs), [i \in 0..(Len(hs) - 1) |-> hs[i + 1].FromBlockNumber > fromBlock])

\* The index RegisterHandler inserts at.
HandlerIndex(hs, fromBlock) ==
    SortSearch(Len(hs), [i \in 0..(Len(hs) - 1) |-> hs[i + 1].FromBlockNumber >= fromBlock])

\* Mutant of HandlerPos: <= for <.
HandlerPos_Le(hs, blockNumber) ==
    SortSearch(Len(hs), [i \in 0..(Len(hs) - 1) |-> blockNumber <= hs[i + 1].FromBlockNumber]) - 1

\* The position GetHandler reads.
HandlerPos(hs, blockNumber) ==
    SortSearch(Len(hs), [i \in 0..(Len(hs) - 1) |-> blockNumber < hs[i + 1].FromBlockNumber]) - 1

\* ------------------------------------------------------ RLP values (fastrlp)
\* A parsed element is a byte string or a list of elements.
Bytes(b) == [t |-> "bytes", b |-> b]
Array(a) == [t |-> "array", a |-> a]

\* n bytes of value x.
Rep(n, x) == [i \in 1..n |-> x]

\* Widths of the fixed-size fields (a uint64 takes up to 8 bytes).
HashLength == 32
AddressLength == 20
BloomByteLength == 256

\* Errors are values. An arity error carries the counts its text names.
NoErr == [kind |-> "nil", says |-> <<>>]
Err(kind) == [kind |-> kind, says |-> <<>>]
ArityErr(says) == [kind |-> "arity", says |-> says]

\* binary.BigEndian on a byte string.
RECURSIVE BigEndian(_)
BigEndian(b) == IF b = <<>> THEN 0 ELSE BigEndian(SubSeq(b, 1, Len(b) - 1)) * 256 + b[Len(b)]

\* fastrlp.Parser.Parse (line 20): one element off the front of the input.
\* The result is [err, v, rest].
RECURSIVE ParseValue(_)
RECURSIVE ParseItems(_)

\* The long forms: the size in lenlen bytes, then the payload. A size that
\* the short form could hold (below 56) is refused.
ParseSized(b, lenlen) ==
    IF Len(b) < lenlen THEN [b |-> <<>>, size |-> 0, bad |-> TRUE]
    ELSE LET size == BigEndian(SubSeq(b, 1, lenlen))
             body == SubSeq(b, lenlen + 1, Len(b))
         IN  [b |-> body, size |-> size, bad |-> size < 56]

ParsePayload(b, size, isList) ==
    IF Len(b) < size THEN [err |-> Err("parse"), v |-> Bytes(<<>>), rest |-> <<>>]
    ELSE LET rest == SubSeq(b, size + 1, Len(b))
             body == SubSeq(b, 1, size)
         IN  IF ~isList THEN [err |-> NoErr, v |-> Bytes(body), rest |-> rest]
             ELSE LET items == ParseItems(body)
                  IN  [err |-> items.err, v |-> Array(items.a), rest |-> rest]

ParseValue(b) ==
    IF b = <<>> THEN [err |-> Err("parse"), v |-> Bytes(<<>>), rest |-> <<>>]
    ELSE LET cur == b[1]
             tail == Tail(b)
         IN  IF cur < 128 THEN [err |-> NoErr, v |-> Bytes(<<cur>>), rest |-> tail]
             ELSE IF cur < 184 THEN ParsePayload(tail, cur - 128, FALSE)
             ELSE IF cur < 192 THEN
                  LET s == ParseSized(tail, cur - 183)
                  IN  IF s.bad THEN [err |-> Err("parse"), v |-> Bytes(<<>>), rest |-> <<>>]
                      ELSE ParsePayload(s.b, s.size, FALSE)
             ELSE IF cur < 248 THEN ParsePayload(tail, cur - 192, TRUE)
             ELSE LET s == ParseSized(tail, cur - 247)
                  IN  IF s.bad THEN [err |-> Err("parse"), v |-> Bytes(<<>>), rest |-> <<>>]
                      ELSE ParsePayload(s.b, s.size, TRUE)

ParseItems(b) ==
    IF b = <<>> THEN [err |-> NoErr, a |-> <<>>]
    ELSE LET head == ParseValue(b)
         IN  IF head.err # NoErr THEN [err |-> head.err, a |-> <<>>]
             ELSE LET more == ParseItems(head.rest)
                  IN  [err |-> more.err, a |-> <<head.v>> \o more.a]

\* ------------------------------------------------- decoding of the fields
\* One field read off one element: what the field holds afterwards, whether
\* the statement assigned it, and the error. GetHash, GetAddr and the
\* 256-byte GetBytes fill the field's own array and leave it alone on an
\* error; x, err = GetUint64() and x, err = GetBytes(x[:0]) assign the zero
\* result before the error is looked at; the recipient never fails.
NilAddress == <<>>

Fixed(v, old, width) ==
    IF v.t = "bytes" /\ Len(v.b) = width
    THEN [val |-> v.b, wrote |-> TRUE, err |-> NoErr]
    ELSE [val |-> old, wrote |-> FALSE,
          err |-> IF v.t = "bytes" THEN Err("length") ELSE Err("type")]

RECURSIVE AllFixed(_, _)
AllFixed(a, width) ==
    IF a = <<>> THEN <<>>
    ELSE LET g == Fixed(Head(a), Rep(width, 0), width)
         IN  IF g.err # NoErr THEN <<g>> ELSE <<g>> \o AllFixed(Tail(a), width)

RECURSIVE AllBytes(_)
AllBytes(a) ==
    IF a = <<>> THEN <<>>
    ELSE IF Head(a).t # "bytes" THEN <<[val |-> <<>>, err |-> Err("type")]>>
         ELSE <<[val |-> Head(a).b, err |-> NoErr]>> \o AllBytes(Tail(a))

\* make([]T, n), then the elements one by one up to the first that fails.
FillList(n, got, zero) ==
    [val |-> [i \in 1..n |-> IF i <= Len(got) THEN got[i].val ELSE zero],
     wrote |-> TRUE,
     err |-> IF got # <<>> /\ got[Len(got)].err # NoErr THEN got[Len(got)].err ELSE NoErr]

\* The recipient, lines 417-424 and 474-481, that refuses what is no
\* address and not empty.
GetTo_Checked(v) ==
    IF v.t = "bytes" /\ Len(v.b) = AddressLength
    THEN [val |-> v.b, wrote |-> TRUE, err |-> NoErr]
    ELSE [val |-> NilAddress, wrote |-> TRUE,
          err |-> IF v.t = "bytes" /\ v.b = <<>> THEN NoErr ELSE Err("length")]

\* The recipient, lines 417-424 and 474-481: vv, _ := v.Get(k).Bytes()
\* drops the error, so a list counts as zero bytes; 20 bytes are the
\* address, anything else resets To to nil.
GetTo(v) ==
    IF v.t = "bytes" /\ Len(v.b) = AddressLength
    THEN [val |-> v.b, wrote |-> TRUE, err |-> NoErr]
    ELSE [val |-> NilAddress, wrote |-> TRUE, err |-> NoErr]

Get(kind, v, old) ==
    CASE kind = "hash" -> Fixed(v, old, HashLength)
      [] kind = "addr" -> Fixed(v, old, AddressLength)
      [] kind = "bloom" -> Fixed(v, old, BloomByteLength)
      [] kind = "nonce" ->
            IF v.t = "bytes" /\ Len(v.b) <= 8
            THEN [val |-> BigEndian(v.b), wrote |-> TRUE, err |-> NoErr]
            ELSE [val |-> old, wrote |-> FALSE,
                  err |-> IF v.t = "bytes" THEN Err("length") ELSE Err("type")]
      [] kind = "uint64" ->
            IF v.t = "bytes" /\ Len(v.b) <= 8
            THEN [val |-> BigEndian(v.b), wrote |-> TRUE, err |-> NoErr]
            ELSE [val |-> 0, wrote |-> TRUE,
                  err |-> IF v.t = "bytes" THEN Err("length") ELSE Err("type")]
      [] kind = "bigint" ->
            IF v.t = "bytes"
            THEN [val |-> BigEndian(v.b), wrote |-> TRUE, err |-> NoErr]
            ELSE [val |-> 0, wrote |-> TRUE, err |-> Err("type")]
      [] kind = "bytes" ->
            IF v.t = "bytes"
            THEN [val |-> v.b, wrote |-> TRUE, err |-> NoErr]
            ELSE [val |-> <<>>, wrote |-> TRUE, err |-> Err("type")]
      [] kind = "to" -> GetTo(v)
      [] kind = "hashes" ->
            IF v.t # "array" THEN [val |-> old, wrote |-> FALSE, err |-> Err("type")]
            ELSE FillList(Len(v.a), AllFixed(v.a, HashLength), Rep(HashLength, 0))
      [] kind = "byteslist" ->
            IF v.t # "array" THEN [val |-> old, wrote |-> FALSE, err |-> Err("type")]
            ELSE FillList(Len(v.a), AllBytes(v.a), <<>>)

\* The fields of an object in the order of their elements, from element
\* number `from` on, up to the first error. r is [obj, err, writes].
RECURSIVE GetFields(_, _, _, _)
GetFields(r, elems, fields, i) ==
    IF i > Len(fields) \/ r.err # NoErr THEN r
    ELSE LET f == fields[i]
             g == Get(f.get, elems[f.at], r.obj[f.name])
         IN  GetFields([obj |-> [r.obj EXCEPT ![f.name] = g.val],
                        err |-> g.err,
                        writes |-> r.writes + (IF g.wrote THEN 1 ELSE 0)],
                       elems, fields, i + 1)

\* Mutant of Elems: only too few elements are refused.
Elems_AtLeast(v, n, text) ==
    IF v.t # "array" THEN Err("type")
    ELSE IF Len(v.a) < n THEN ArityErr(<<n, Len(v.a)>>)
    ELSE NoErr

\* v.GetElems() and the test of the element count in front of every decoder.
\* The error text gives the required and the found count ("both"), the
\* required count ("expected") or no count ("none").
Elems(v, n, text) ==
    IF v.t # "array" THEN Err("type")
    ELSE IF Len(v.a) # n
         THEN ArityErr(CASE text = "both" -> <<n, Len(v.a)>>
                         [] text = "expected" -> <<n>>
                         [] text = "none" -> <<>>)
    ELSE NoErr

\* --------------------------------------------------------------- objects
F(name, get, at) == [name |-> name, get |-> get, at |-> at]

\* Element counts of the objects.
HeaderArity == 15
BlockArity == 3
LegacyArity == 9
StateArity == 7
ReceiptArity == 4
LogArity == 3

HeaderFields ==
    << F("ParentHash", "hash", 1), F("Sha3Uncles", "hash", 2), F("Miner", "addr", 3),
       F("StateRoot", "hash", 4), F("TxRoot", "hash", 5), F("ReceiptsRoot", "hash", 6),
       F("LogsBloom", "bloom", 7), F("Difficulty", "uint64", 8), F("Number", "uint64", 9),
       F("GasLimit", "uint64", 10), F("GasUsed", "uint64", 11), F("Timestamp", "uint64", 12),
       F("ExtraData", "bytes", 13), F("MixHash", "hash", 14), F("Nonce", "nonce", 15) >>

LegacyFields ==
    << F("Nonce", "uint64", 1), F("GasPrice", "bigint", 2), F("Gas", "uint64", 3),
       F("To", "to", 4), F("Value", "bigint", 5), F("Input", "bytes", 6),
       F("V", "bigint", 7), F("R", "bigint", 8), F("S", "bigint", 9) >>

StateFields ==
    << F("Nonce", "uint64", 1), F("To", "to", 2), F("Input", "bytes", 3),
       F("Signatures", "byteslist", 4), F("V", "bigint", 5), F("R", "bigint", 6),
       F("S", "bigint", 7) >>

LogFields == << F("Address", "addr", 1), F("Topics", "hashes", 2), F("Data", "bytes", 3) >>

ReceiptFields == << F("CumulativeGasUsed", "uint64", 2), F("LogsBloom", "bloom", 3) >>

\* The zero value of a field of each kind.
ZeroOf(kind) ==
    CASE kind = "hash" -> Rep(HashLength, 0)
      [] kind = "addr" -> Rep(AddressLength, 0)
      [] kind = "bloom" -> Rep(BloomByteLength, 0)
      [] kind \in {"uint64", "bigint", "nonce"} -> 0
      [] kind = "to" -> NilAddress
      [] kind \in {"bytes", "hashes", "byteslist"} -> <<>>

Names(fields) == {fields[i].name : i \in 1..Len(fields)}
Zero(fields) ==
    [n \in Names(fields) |-> ZeroOf(fields[CHOOSE i \in 1..Len(fields) : fields[i].name = n].get)]

\* Transaction types: the legacy type and the typed "state" type.
TxTypeLegacy == 0
TxTypeState == 2
RLPSingleByteUpperLimit == 127

\* ToTransactionType: a known type, or an error.
ToTransactionType(b) ==
    IF b \in {TxTypeLegacy, TxTypeState} THEN [err |-> NoErr, type |-> b]
    ELSE [err |-> Err("txtype"), type |-> b]

\* newTxPayload: a zero payload of the type.
newTxPayload(txType) ==
    CASE txType = TxTypeLegacy -> [err |-> NoErr, p |-> Zero(LegacyFields) @@ [type |-> txType]]
      [] txType = TxTypeState -> [err |-> NoErr, p |-> Zero(StateFields) @@ [type |-> txType]]
      [] OTHER -> [err |-> Err("txtype"), p |-> [type |-> txType]]

\* A cached hash is the hashed content (no two contents collide), or unset.
NoHash == <<>>
HashOf(content) == <<content>>

\* Header.ComputeHash: the hash of the fifteen fields.
HeaderContent(h) == [n \in Names(HeaderFields) |-> h[n]]
ComputeHash(h) == [h EXCEPT !.Hash = HashOf(HeaderContent(h))]

\* Transaction.ComputeHash: the hash of the payload with its type.
ComputeTxHash(t) == [t EXCEPT !.Hash = HashOf(t.Payload), !.hashed = @ + 1]

ZeroHeader == Zero(HeaderFields) @@ [Hash |-> NoHash]
ZeroLog == Zero(LogFields)
ZeroReceipt ==
    Zero(ReceiptFields) @@
    [TransactionType |-> TxTypeLegacy, Root |-> Rep(HashLength, 0), Status |-> <<>>, Logs |-> <<>>]
ZeroBlock == [Header |-> <<>>, Transactions |-> <<>>, Uncles |-> <<>>]
\* &Transaction{}: no payload, no hash; hashed counts its ComputeHash calls.
ZeroTransaction == [Payload |-> [type |-> TxTypeLegacy], Hash |-> NoHash, hashed |-> 0]

\* What a decoder leaves: the target, the error, the number of field
\* assignments made, the number of ComputeHash calls on the target, and
\* whether it ended in a run-time panic.
Out(obj, err, writes, hashed, panic) ==
    [obj |-> obj, err |-> err, writes |-> writes, hashed |-> hashed, panic |-> panic]

\* The decoder of an object with the fields `fields`: the count test, then
\* the fields.
Object(o, v, fields, n, text) ==
    LET e == Elems(v, n, text)
    IN  IF e # NoErr THEN Out(o, e, 0, 0, FALSE)
        ELSE LET r == GetFields([obj |-> o, err |-> NoErr, writes |-> 0], v.a, fields, 1)
             IN  Out(r.obj, r.err, r.writes, 0, FALSE)

\* Header.UnmarshalRLPFrom, lines 105-183.
HeaderUnmarshalRLPFrom(h, v) ==
    LET r == Object(h, v, HeaderFields, HeaderArity, "both")
    IN  IF r.err # NoErr THEN r
        ELSE [r EXCEPT !.obj = ComputeHash(r.obj), !.hashed = 1]

\* LegacyTransaction.UnmarshalRLPFrom, lines 390-456.
LegacyUnmarshalRLPFrom(t, v) == Object(t, v, LegacyFields, LegacyArity, "both")

\* StateTransaction.UnmarshalRLPFrom, lines 458-520.
StateUnmarshalRLPFrom(t, v) == Object(t, v, StateFields, StateArity, "both")

\* txn.Payload.UnmarshalRLPFrom: the decoder of the payload's own type.
PayloadUnmarshalRLPFrom(p, v) ==
    IF p.type = TxTypeState THEN StateUnmarshalRLPFrom(p, v) ELSE LegacyUnmarshalRLPFrom(p, v)

\* Log.UnmarshalRLPFrom, lines 295-329.
LogUnmarshalRLPFrom(l, v) == Object(l, v, LogFields, LogArity, "none")

\* The logs of a receipt, lines 283-290: each into a new Log, appended.
RECURSIVE ReceiptLogs(_, _)
ReceiptLogs(r, logsElems) ==
    IF logsElems = <<>> THEN r
    ELSE LET l == LogUnmarshalRLPFrom(ZeroLog, Head(logsElems))
         IN  IF l.err # NoErr THEN [r EXCEPT !.err = l.err]
             ELSE ReceiptLogs([r EXCEPT !.obj.Logs = Append(@, l.obj), !.writes = @ + 1],
                              Tail(logsElems))

\* Receipt.UnmarshalRLPFrom that refuses a first field of any other length
\* than 32 or 1.
ReceiptUnmarshalRLPFrom_Strict(r, v) ==
    LET e == Elems(v, ReceiptArity, "expected")
    IN  IF e # NoErr THEN Out(r, e, 0, 0, FALSE)
        ELSE IF v.a[1].t # "bytes" THEN Out(r, Err("type"), 0, 0, FALSE)
        ELSE IF Len(v.a[1].b) \notin {HashLength, 1} THEN Out(r, Err("length"), 0, 0, FALSE)
        ELSE LET buf == v.a[1].b
                 r1 == IF Len(buf) = HashLength THEN [r EXCEPT !.Root = buf]
                       ELSE [r EXCEPT !.Status = <<buf[1]>>]
                 g == GetFields([obj |-> r1, err |-> NoErr, writes |-> 1], v.a, ReceiptFields, 1)
             IN  IF g.err # NoErr THEN Out(g.obj, g.err, g.writes, 0, FALSE)
                 ELSE IF v.a[4].t # "array" THEN Out(g.obj, Err("type"), g.writes, 0, FALSE)
                 ELSE ReceiptLogs(Out(g.obj, NoErr, g.writes, 0, FALSE), v.a[4].a)

\* Receipt.UnmarshalRLPFrom, lines 241-293. The first field: 32 bytes are
\* the root, one byte is the status, anything else sets the status to 0.
ReceiptUnmarshalRLPFrom(r, v) ==
    LET e == Elems(v, ReceiptArity, "expected")
    IN  IF e # NoErr THEN Out(r, e, 0, 0, FALSE)
        ELSE IF v.a[1].t # "bytes" THEN Out(r, Err("type"), 0, 0, FALSE)
        ELSE LET buf == v.a[1].b
                 r1 == CASE Len(buf) = HashLength -> [r EXCEPT !.Root = buf]
                         [] Len(buf) = 1 -> [r EXCEPT !.Status = <<buf[1]>>]
                         [] OTHER -> [r EXCEPT !.Status = <<0>>]
                 g == GetFields([obj |-> r1, err |-> NoErr, writes |-> 1], v.a, ReceiptFields, 1)
             IN  IF g.err # NoErr THEN Out(g.obj, g.err, g.writes, 0, FALSE)
                 ELSE IF v.a[4].t # "array" THEN Out(g.obj, Err("type"), g.writes, 0, FALSE)
                 ELSE ReceiptLogs(Out(g.obj, NoErr, g.writes, 0, FALSE), v.a[4].a)

\* Mutant of TransactionTypeUnmarshalRLPFrom: the tag is skipped, not read.
TransactionTypeUnmarshalRLPFrom_Ignored(v) == [err |-> NoErr, type |-> TxTypeLegacy]

\* TransactionType.UnmarshalRLPFrom, lines 38-53.
TransactionTypeUnmarshalRLPFrom(v) ==
    IF v.t # "bytes" THEN [err |-> Err("type"), type |-> TxTypeLegacy]
    ELSE IF Len(v.b) # 1 THEN [err |-> Err("length"), type |-> TxTypeLegacy]
    ELSE ToTransactionType(v.b[1])

\* The head of both scans, lines 196-204 and 338-345: the type of the
\* object at position i (from 0) and the position j of its payload.
ScanHead(elems, i) ==
    IF elems[i + 1].t = "bytes"
    THEN TransactionTypeUnmarshalRLPFrom(elems[i + 1]) @@ [j |-> i + 1]
    ELSE [err |-> NoErr, type |-> TxTypeLegacy, j |-> i]

\* The loop of Transactions.UnmarshalRLPFrom, lines 337-360. An index past
\* the end of the slice is a run-time panic.
RECURSIVE TransactionsScan(_, _, _)
TransactionsScan(r, txns, i) ==
    IF i >= Len(txns) THEN r
    ELSE LET h == ScanHead(txns, i)
             pl == newTxPayload(h.type)
         IN  IF h.err # NoErr THEN [r EXCEPT !.err = h.err]
             ELSE IF pl.err # NoErr THEN [r EXCEPT !.err = pl.err]
             ELSE IF h.j >= Len(txns) THEN [r EXCEPT !.panic = TRUE]
             ELSE LET d == PayloadUnmarshalRLPFrom(pl.p, txns[h.j + 1])
                      txn == [ZeroTransaction EXCEPT !.Payload = d.obj]
                  IN  IF d.err # NoErr THEN [r EXCEPT !.err = d.err]
                      ELSE TransactionsScan([r EXCEPT !.obj = Append(@, ComputeTxHash(txn)),
                                                      !.writes = @ + 1,
                                                      !.hashed = @ + 1],
                                            txns, h.j + 1)

\* Transactions.UnmarshalRLPFrom, lines 331-363.
TransactionsUnmarshalRLPFrom(tt, v) ==
    IF v.t # "array" THEN Out(tt, Err("type"), 0, 0, FALSE)
    ELSE TransactionsScan(Out(tt, NoErr, 0, 0, FALSE), v.a, 0)

\* The loop of Receipts.UnmarshalRLPFrom, lines 195-214.
RECURSIVE ReceiptsScan(_, _, _)
ReceiptsScan(r, elems, i) ==
    IF i >= Len(elems) THEN r
    ELSE LET h == ScanHead(elems, i)
         IN  IF h.err # NoErr THEN [r EXCEPT !.err = h.err]
             ELSE IF h.j >= Len(elems) THEN [r EXCEPT !.panic = TRUE]
             ELSE LET d == ReceiptUnmarshalRLPFrom([ZeroReceipt EXCEPT !.TransactionType = h.type],
                                                   elems[h.j + 1])
                  IN  IF d.err # NoErr THEN [r EXCEPT !.err = d.err]
                      ELSE ReceiptsScan([r EXCEPT !.obj = Append(@, d.obj), !.writes = @ + 1],
                                        elems, h.j + 1)

\* Receipts.UnmarshalRLPFrom, lines 189-217.
ReceiptsUnmarshalRLPFrom(rs, v) ==
    IF v.t # "array" THEN Out(rs, Err("type"), 0, 0, FALSE)
    ELSE ReceiptsScan(Out(rs, NoErr, 0, 0, FALSE), v.a, 0)

\* The uncles of a block, lines 89-96: each into a new Header, appended.
RECURSIVE BlockUncles(_, _)
BlockUncles(r, uncles) ==
    IF uncles = <<>> THEN r
    ELSE LET u == HeaderUnmarshalRLPFrom(ZeroHeader, Head(uncles))
         IN  IF u.err # NoErr THEN [r EXCEPT !.err = u.err]
             ELSE BlockUncles([r EXCEPT !.obj.Uncles = Append(@, u.obj), !.writes = @ + 1],
                              Tail(uncles))

\* Block.UnmarshalRLPFrom, lines 59-99.
BlockUnmarshalRLPFrom(b, v) ==
    LET e == Elems(v, BlockArity, "both")
    IN  IF e # NoErr THEN Out(b, e, 0, 0, FALSE)
        ELSE LET h == HeaderUnmarshalRLPFrom(ZeroHeader, v.a[1])
                 b1 == [b EXCEPT !.Header = <<h.obj>>]
                 t == TransactionsUnmarshalRLPFrom(<<>>, v.a[2])
                 b2 == [b1 EXCEPT !.Transactions = t.obj]
             IN  IF h.err # NoErr THEN Out(b1, h.err, 1, 0, FALSE)
                 ELSE IF t.panic THEN Out(b1, NoErr, 1, 0, TRUE)
                 ELSE IF t.err # NoErr THEN Out(b1, t.err, 1, 0, FALSE)
                 ELSE IF v.a[3].t # "array" THEN Out(b2, Err("type"), 2, 0, FALSE)
                 ELSE BlockUncles(Out(b2, NoErr, 2, 0, FALSE), v.a[3].a)

\* The decoder handed to UnmarshalRlp: a method value, that is a method
\* with its receiver.
CallDecoder(method, target, v) ==
    CASE method = "Receipts.UnmarshalRLPFrom" -> ReceiptsUnmarshalRLPFrom(target, v)
      [] method = "Payload.UnmarshalRLPFrom" -> PayloadUnmarshalRLPFrom(target, v)
      [] method = "Receipt.UnmarshalRLPFrom" -> ReceiptUnmarshalRLPFrom(target, v)

\* UnmarshalRlp, lines 17-36: a parser from the pool, the parse, the
\* object's decoder, and the parser put back before each return. A panic
\* of the decoder leaves through the function, past every Put. The result
\* is what the decoder left (a failed parse leaves the target as it was)
\* with the number of parsers taken from the pool and put back.
UnmarshalRlp(method, target, input) ==
    LET p == ParseValue(input)
        r == CallDecoder(method, target, p.v)
    IN  IF p.err # NoErr THEN [got |-> 1, put |-> 1, out |-> Out(target, p.err, 0, 0, FALSE)]
        ELSE IF r.panic THEN [got |-> 1, put |-> 0, out |-> r]
        ELSE [got |-> 1, put |-> 1, out |-> r]

\* Receipts.UnmarshalRLP, lines 185-187.
ReceiptsUnmarshalRLP(rs, input) == UnmarshalRlp("Receipts.UnmarshalRLPFrom", rs, input)

\* The list marker of the encoding: a first byte from here on opens a list.
RLPListMarker == 192

\* The optional type byte, taken as one whenever it is below the list marker.
LeadingType_ListMarker(input) ==
    IF Len(input) > 0 /\ input[1] < RLPListMarker
    THEN ToTransactionType(input[1]) @@ [offset |-> 1]
    ELSE [err |-> NoErr, type |-> TxTypeLegacy, offset |-> 0]

\* The optional type byte in front of a top-level object, lines 366-376
\* and 220-230.
LeadingType(input) ==
    IF Len(input) > 0 /\ input[1] <= RLPSingleByteUpperLimit
    THEN ToTransactionType(input[1]) @@ [offset |-> 1]
    ELSE [err |-> NoErr, type |-> TxTypeLegacy, offset |-> 0]

\* Transaction.UnmarshalRLP, lines 365-387.
TransactionUnmarshalRLP(t, input) ==
    LET lead == LeadingType(input)
        new == newTxPayload(lead.type)
        u == UnmarshalRlp("Payload.UnmarshalRLPFrom", new.p,
                          SubSeq(input, lead.offset + 1, Len(input)))
    IN  IF lead.err # NoErr THEN [got |-> 0, put |-> 0, out |-> Out(t, lead.err, 0, 0, FALSE)]
        ELSE IF new.err # NoErr THEN [got |-> 0, put |-> 0, out |-> Out(t, new.err, 0, 0, FALSE)]
        ELSE [u EXCEPT !.out.obj = [t EXCEPT !.Payload = u.out.obj], !.out.writes = @ + 1]

\* Receipt.UnmarshalRLP, lines 219-238: the type is stored in the receipt
\* before the rest is parsed.
ReceiptUnmarshalRLP(r, input) ==
    LET lead == LeadingType(input)
        r1 == [r EXCEPT !.TransactionType = lead.type]
        u == UnmarshalRlp("Receipt.UnmarshalRLPFrom", r1,
                          SubSeq(input, lead.offset + 1, Len(input)))
    IN  IF lead.err # NoErr THEN [got |-> 0, put |-> 0, out |-> Out(r, lead.err, 0, 0, FALSE)]
        ELSE [u EXCEPT !.out.writes = @ + 1]

\* -------------------------------------------------------------------- Init

\* The object GetInstance constructs (lines 60-72): the base fork at
\* height 0 in the list and in the map, no handlers.
NewForkManager ==
    [forks |-> <<Fork(BaseFork, 0)>>,
     forkMap |-> (BaseFork :> Fork(BaseFork, 0)),
     handlersMap |-> <<>>]

\* The package variables at program start: no instance yet, mutex free.
Nil == 0

InitInstance ==
    /\ forkManagerInstance = Nil
    /\ forkManagerInstanceLock = NoHolder
    /\ heap = <<>>
    /\ gpc = [t \in Threads |-> "idle"]
    /\ gref = [t \in Threads |-> Nil]

\* No decoder has run: the pool's counters at zero, no Header made yet.
NoHeader == [made |-> FALSE]

InitDecoder ==
    /\ pool = [got |-> 0, put |-> 0]
    /\ hdr = NoHeader
    /\ dec = [op |-> "none"]

\* No extra-data handler has been called.
InitExtra == ext = [op |-> "none"]

\* The deploy command before runCommand is entered: nothing deployed, no
\* error, neither context cancelled, nothing written.
\* A nil *deployContractResult.
NoResult == [nil |-> TRUE]
NoError == "nil"
InitDeploy ==
    dep = [pc |-> "idle", existing |-> FALSE, contracts |-> <<>>, i |-> 0,
           task |-> <<>>, receipt |-> <<>>, results |-> <<>>, gerr |-> NoError,
           ctx |-> FALSE, cmdCtx |-> FALSE, reported |-> <<>>, populated |-> {},
           itask |-> <<>>, ierr |-> NoError, registered |-> "none",
           checkpoint |-> "none", out |-> "none", written |-> FALSE]

\* The registry as GetInstance hands it out: the base fork at height 0, no
\* handlers. The accessor's own variables are at program start.
Init ==
    /\ forks = NewForkManager.forks
    /\ forkMap = NewForkManager.forkMap
    /\ handlersMap = NewForkManager.handlersMap
    /\ ret = [op |-> "GetInstance"]
    /\ lock = NoHolder
    /\ pc = [t \in Threads |-> "idle"]
    /\ loc = [t \in Threads |-> NoCall]
    /\ InitInstance
    /\ InitDecoder
    /\ InitExtra
    /\ InitDeploy

\* ----------------------------------------------------------------- actions

RegisterForkForks(fs, name, fromBlock) ==
    IF Len(fs) = 0
    THEN Append(fs, Fork(name, fromBlock))
    ELSE InsertAt(fs, ForkIndex(fs, fromBlock), Fork(name, fromBlock), EmptyFork)

\* Mutant of RegisterForkMap: a name already in the map keeps its fork.
RegisterForkMap_KeepOld(fmap, name, fromBlock) ==
    [n \in DOMAIN fmap \cup {name} |->
        IF n \in DOMAIN fmap THEN fmap[n] ELSE Fork(name, fromBlock)]

RegisterForkMap(fmap, name, fromBlock) ==
    [n \in DOMAIN fmap \cup {name} |->
        IF n = name THEN Fork(name, fromBlock) ELSE fmap[n]]

\* Mutant of RegisterFork: re-registering a fork moves the handler entries
\* that stand at the fork's old height to the new height.
RegisterFork_MovesHandlers(name, fromBlock) ==
    /\ Len(forks) < MaxForks
    /\ forkMap' = RegisterForkMap(forkMap, name, fromBlock)
    /\ forks' = RegisterForkForks(forks, name, fromBlock)
    /\ handlersMap' =
          [c \in DOMAIN handlersMap |->
              [k \in 1..Len(handlersMap[c]) |->
                  IF /\ name \in DOMAIN forkMap
                     /\ handlersMap[c][k].FromBlockNumber = forkMap[name].FromBlockNumber
                  THEN ForkHandler(fromBlock, handlersMap[c][k].Handler)
                  ELSE handlersMap[c][k]]]
    /\ ret' = [op |-> "RegisterFork", name |-> name, block |-> fromBlock]
    /\ UNCHANGED <<cvars, ovars>>

RegisterFork(name, fromBlock) ==
    /\ Len(forks) < MaxForks
    /\ forkMap' = RegisterForkMap(forkMap, name, fromBlock)
    /\ forks' = RegisterForkForks(forks, name, fromBlock)
    /\ ret' = [op |-> "RegisterFork", name |-> name, block |-> fromBlock]
    /\ UNCHANGED <<handlersMap, cvars, ovars>>

\* RegisterHandler's table update once the fork is known to exist.
RegisterHandlerTable(hm, fromBlock, handlerName, handler) ==
    IF handlerName \notin DOMAIN hm
    THEN <<ForkHandler(fromBlock, handler)>>
    ELSE InsertAt(hm[handlerName], HandlerIndex(hm[handlerName], fromBlock),
                  ForkHandler(fromBlock, handler), EmptyForkHandler)

\* Mutant of RegisterHandlerMap: the exists check is dropped, an unknown fork
\* reads as the zero Fork.
RegisterHandlerMap_NoCheck(fmap, hm, forkName, handlerName, handler) ==
    [c \in DOMAIN hm \cup {handlerName} |->
        IF c = handlerName
        THEN RegisterHandlerTable(
                 hm, IF forkName \in DOMAIN fmap THEN fmap[forkName].FromBlockNumber ELSE 0,
                 handlerName, handler)
        ELSE hm[c]]

RegisterHandlerMap(fmap, hm, forkName, handlerName, handler) ==
    IF forkName \notin DOMAIN fmap
    THEN hm
    ELSE [c \in DOMAIN hm \cup {handlerName} |->
            IF c = handlerName
            THEN RegisterHandlerTable(hm, fmap[forkName].FromBlockNumber, handlerName, handler)
            ELSE hm[c]]

\* "fork does not exist" or nil.
RegisterHandlerErr(fmap, forkName) == forkName \notin DOMAIN fmap

RegisterHandler(forkName, handlerName, handler) ==
    /\ handlerName \in DOMAIN handlersMap => Len(handlersMap[handlerName]) < MaxHandlers
    /\ handlersMap' = RegisterHandlerMap(forkMap, handlersMap, forkName, handlerName, handler)
    /\ ret' = [op |-> "RegisterHandler", fork |-> forkName, name |-> handlerName,
               handler |-> handler, err |-> RegisterHandlerErr(forkMap, forkName)]
    /\ UNCHANGED <<forkMap, forks, cvars, ovars>>

\* Mutant of GetHandlerResult: a position before the first entry is clamped
\* to the first entry instead of indexing handlers[-1].
GetHandlerResult_Clamped(hm, name, blockNumber) ==
    IF name \notin DOMAIN hm
    THEN [panic |-> TRUE, handler |-> NilHandler]
    ELSE LET pos == HandlerPos(hm[name], blockNumber)
         IN  IF pos >= Len(hm[name])
             THEN [panic |-> TRUE, handler |-> NilHandler]
             ELSE [panic |-> FALSE,
                   handler |-> hm[name][(IF pos < 0 THEN 0 ELSE pos) + 1].Handler]

\* Mutant of GetHandlerResult: a missing table or position yields the nil
\* handler instead of a panic.
GetHandlerResult_Default(hm, name, blockNumber) ==
    IF name \notin DOMAIN hm
    THEN [panic |-> FALSE, handler |-> NilHandler]
    ELSE LET pos == HandlerPos(hm[name], blockNumber)
         IN  IF pos < 0 \/ pos >= Len(hm[name])
             THEN [panic |-> FALSE, handler |-> NilHandler]
             ELSE [panic |-> FALSE, handler |-> hm[name][pos + 1].Handler]

\* What GetHandler hands back: the handler, or a panic (no table for the
\* capability, or position -1: index out of range). The deferred Unlock runs
\* while the panic unwinds, so the registry stays usable for a caller that
\* recovers; the calls after a panic are those of such a caller.
GetHandlerResult(hm, name, blockNumber) ==
    IF name \notin DOMAIN hm
    THEN [panic |-> TRUE, handler |-> NilHandler]
    ELSE LET pos == HandlerPos(hm[name], blockNumber)
         IN  IF pos < 0 \/ pos >= Len(hm[name])
             THEN [panic |-> TRUE, handler |-> NilHandler]
             ELSE [panic |-> FALSE, handler |-> hm[name][pos + 1].Handler]

\* Mutant of GetHandler: get-or-create, a missing table is stored empty.
GetHandler_Create(name, blockNumber) ==
    /\ ret' = [op |-> "GetHandler", name |-> name, block |-> blockNumber,
               res |-> GetHandlerResult(handlersMap, name, blockNumber)]
    /\ handlersMap' = [c \in DOMAIN handlersMap \cup {name} |->
                         IF c \in DOMAIN handlersMap THEN handlersMap[c] ELSE <<>>]
    /\ UNCHANGED <<forkMap, forks, cvars, ovars>>

GetHandler(name, blockNumber) ==
    /\ ret' = [op |-> "GetHandler", name |-> name, block |-> blockNumber,
               res |-> GetHandlerResult(handlersMap, name, blockNumber)]
    /\ UNCHANGED <<registry, cvars, ovars>>

IsForkSupportedResult(fmap, name) == name \in DOMAIN fmap

IsForkSupported(name) ==
    /\ ret' = [op |-> "IsForkSupported", name |-> name,
               res |-> IsForkSupportedResult(forkMap, name)]
    /\ UNCHANGED <<registry, cvars, ovars>>

\* Mutant of IsForkEnabledResult: < for <=.
IsForkEnabledResult_Lt(fmap, name, blockNumber) ==
    IF name \notin DOMAIN fmap
    THEN FALSE
    ELSE fmap[name].FromBlockNumber < blockNumber

IsForkEnabledResult(fmap, name, blockNumber) ==
    IF name \notin DOMAIN fmap
    THEN FALSE
    ELSE fmap[name].FromBlockNumber <= blockNumber

IsForkEnabled(name, blockNumber) ==
    /\ ret' = [op |-> "IsForkEnabled", name |-> name, block |-> blockNumber,
               res |-> IsForkEnabledResult(forkMap, name, blockNumber)]
    /\ UNCHANGED <<registry, cvars, ovars>>

GetForkBlockResult(fmap, name) ==
    IF name \notin DOMAIN fmap
    THEN [block |-> 0, err |-> TRUE]
    ELSE [block |-> fmap[name].FromBlockNumber, err |-> FALSE]

GetForkBlock(name) ==
    /\ ret' = [op |-> "GetForkBlock", name |-> name,
               res |-> GetForkBlockResult(forkMap, name)]
    /\ UNCHANGED <<registry, cvars, ovars>>

Next ==
    \/ \E name \in ForkNames, fromBlock \in Blocks : RegisterFork(name, fromBlock)
    \/ \E forkName \in ForkNames, handlerName \in HandlerNames, handler \in Handlers :
          RegisterHandler(forkName, handlerName, handler)
    \/ \E name \in HandlerNames, blockNumber \in Blocks : GetHandler(name, blockNumber)
    \/ \E name \in ForkNames : IsForkSupported(name)
    \/ \E name \in ForkNames, blockNumber \in Blocks : IsForkEnabled(name, blockNumber)
    \/ \E name \in ForkNames : GetForkBlock(name)

Spec == Init /\ [][Next]_vars

\* ------------------------------------------------- concurrent callers
\* Each goroutine runs one call at a time, statement by statement. Its
\* arguments are drawn when it gets the lock (they are its own until then).
\* A panic unwinds through the deferred Unlock like a return does.

\* Mutant of LockFree: Lock() never waits.
LockFree_Always(l) == TRUE

\* fm.lock.Lock() goes through when nobody holds the mutex.
LockFree(l) == l = NoHolder

\* A goroutine calls an operation and reaches its fm.lock.Lock().
Call(t) ==
    /\ pc[t] = "idle"
    /\ pc' = [pc EXCEPT ![t] = "lock"]
    /\ UNCHANGED <<registry, ret, ovars, lock, loc>>

Enter(t, first, call) ==
    /\ pc[t] = "lock"
    /\ LockFree(lock)
    /\ lock' = t
    /\ pc' = [pc EXCEPT ![t] = first]
    /\ loc' = [loc EXCEPT ![t] = call @@ [pre |-> [forkMap |-> forkMap, forks |-> forks,
                                                    handlersMap |-> handlersMap]]]
    /\ UNCHANGED <<registry, ret, ovars>>

Goto(t, label) == pc' = [pc EXCEPT ![t] = label]

\* RegisterFork, lines 79-95.
LockRegisterFork(t, name, fromBlock) ==
    /\ Len(forks) < ConcMaxForks
    /\ Enter(t, "rf_map", [op |-> "RegisterFork", name |-> name, block |-> fromBlock,
                           index |-> 0])

RF_SetMap(t) ==
    /\ pc[t] = "rf_map"
    /\ forkMap' = RegisterForkMap(forkMap, loc[t].name, loc[t].block)
    /\ Goto(t, "rf_search")
    /\ UNCHANGED <<forks, handlersMap, ret, ovars, lock, loc>>

RF_Search(t) ==
    /\ pc[t] = "rf_search"
    /\ IF Len(forks) = 0
       THEN /\ forks' = Append(forks, Fork(loc[t].name, loc[t].block))
            /\ Goto(t, "unlock")
            /\ UNCHANGED loc
       ELSE /\ loc' = [loc EXCEPT ![t].index = ForkIndex(forks, loc[t].block)]
            /\ Goto(t, "rf_append")
            /\ UNCHANGED forks
    /\ UNCHANGED <<forkMap, handlersMap, ret, ovars, lock>>

RF_Append(t) ==
    /\ pc[t] = "rf_append"
    /\ forks' = AppendZero(forks, EmptyFork)
    /\ Goto(t, "rf_copy")
    /\ UNCHANGED <<forkMap, handlersMap, ret, ovars, lock, loc>>

RF_Copy(t) ==
    /\ pc[t] = "rf_copy"
    /\ forks' = CopyUp(forks, loc[t].index)
    /\ Goto(t, "rf_set")
    /\ UNCHANGED <<forkMap, handlersMap, ret, ovars, lock, loc>>

RF_Set(t) ==
    /\ pc[t] = "rf_set"
    /\ forks' = SetAt(forks, loc[t].index, Fork(loc[t].name, loc[t].block))
    /\ Goto(t, "unlock")
    /\ UNCHANGED <<forkMap, handlersMap, ret, ovars, lock, loc>>

\* RegisterHandler, lines 99-128.
LockRegisterHandler(t, forkName, handlerName, handler) ==
    /\ handlerName \in DOMAIN handlersMap =>
          Len(handlersMap[handlerName]) < ConcMaxHandlers
    /\ Enter(t, "rh_fork", [op |-> "RegisterHandler", fork |-> forkName,
                            name |-> handlerName, handler |-> handler, from |-> 0,
                            index |-> 0, handlers |-> <<>>, shared |-> FALSE,
                            err |-> FALSE])

RH_Fork(t) ==
    /\ pc[t] = "rh_fork"
    /\ IF loc[t].fork \notin DOMAIN forkMap
       THEN /\ loc' = [loc EXCEPT ![t].err = TRUE]
            /\ Goto(t, "unlock")
       ELSE /\ loc' = [loc EXCEPT ![t].from = forkMap[loc[t].fork].FromBlockNumber]
            /\ Goto(t, "rh_table")
    /\ UNCHANGED <<registry, ret, ovars, lock>>

RH_Table(t) ==
    /\ pc[t] = "rh_table"
    /\ IF loc[t].name \notin DOMAIN handlersMap
       THEN /\ handlersMap' = [c \in DOMAIN handlersMap \cup {loc[t].name} |->
                                 IF c = loc[t].name
                                 THEN <<ForkHandler(loc[t].from, loc[t].handler)>>
                                 ELSE handlersMap[c]]
            /\ Goto(t, "unlock")
            /\ UNCHANGED loc
       ELSE /\ loc' = [loc EXCEPT
                         ![t].handlers = handlersMap[loc[t].name],
                         ![t].index = HandlerIndex(handlersMap[loc[t].name], loc[t].from)]
            /\ Goto(t, "rh_append")
            /\ UNCHANGED handlersMap
    /\ UNCHANGED <<forkMap, forks, ret, ovars, lock>>

\* What the map's slice shows of the local slice hs when both share one
\* backing array: the map's slice keeps its own length.
Aliased(table, hs) ==
    [k \in 1..Len(table) |-> IF k <= Len(hs) THEN hs[k] ELSE table[k]]

StoreAliased(hm, name, hs, shared) ==
    IF shared /\ name \in DOMAIN hm
    THEN [hm EXCEPT ![name] = Aliased(hm[name], hs)]
    ELSE hm

\* append() grows the slice in place when the backing array has room for it
\* (shared) and into a new array when it has not.
RH_Append(t, shared) ==
    /\ pc[t] = "rh_append"
    /\ loc' = [loc EXCEPT ![t].handlers = AppendZero(loc[t].handlers, EmptyForkHandler),
                          ![t].shared = shared]
    /\ Goto(t, "rh_copy")
    /\ UNCHANGED <<registry, ret, ovars, lock>>

RH_Copy(t) ==
    /\ pc[t] = "rh_copy"
    /\ loc' = [loc EXCEPT ![t].handlers = CopyUp(loc[t].handlers, loc[t].index)]
    /\ handlersMap' = StoreAliased(handlersMap, loc[t].name, loc'[t].handlers, loc[t].shared)
    /\ Goto(t, "rh_set")
    /\ UNCHANGED <<forkMap, forks, ret, ovars, lock>>

RH_Set(t) ==
    /\ pc[t] = "rh_set"
    /\ loc' = [loc EXCEPT ![t].handlers =
                 SetAt(loc[t].handlers, loc[t].index, ForkHandler(loc[t].from, loc[t].handler))]
    /\ handlersMap' = StoreAliased(handlersMap, loc[t].name, loc'[t].handlers, loc[t].shared)
    /\ Goto(t, "rh_store")
    /\ UNCHANGED <<forkMap, forks, ret, ovars, lock>>

RH_Store(t) ==
    /\ pc[t] = "rh_store"
    /\ handlersMap' = [c \in DOMAIN handlersMap \cup {loc[t].name} |->
                         IF c = loc[t].name THEN loc[t].handlers ELSE handlersMap[c]]
    /\ Goto(t, "unlock")
    /\ UNCHANGED <<forkMap, forks, ret, ovars, lock, loc>>

\* GetHandler, lines 132-145.
LockGetHandler(t, name, blockNumber) ==
    Enter(t, "gh_read", [op |-> "GetHandler", name |-> name, block |-> blockNumber,
                         res |-> [panic |-> FALSE, handler |-> NilHandler]])

GH_Read(t) ==
    /\ pc[t] = "gh_read"
    /\ loc' = [loc EXCEPT ![t].res = GetHandlerResult(handlersMap, loc[t].name, loc[t].block)]
    /\ Goto(t, "unlock")
    /\ UNCHANGED <<registry, ret, ovars, lock>>

\* IsForkSupported, lines 149-154.
LockIsForkSupported(t, name) ==
    Enter(t, "is_read", [op |-> "IsForkSupported", name |-> name, res |-> FALSE])

IS_Read(t) ==
    /\ pc[t] = "is_read"
    /\ loc' = [loc EXCEPT ![t].res = IsForkSupportedResult(forkMap, loc[t].name)]
    /\ Goto(t, "unlock")
    /\ UNCHANGED <<registry, ret, ovars, lock>>

\* IsForkEnabled, lines 158-166.
LockIsForkEnabled(t, name, blockNumber) ==
    Enter(t, "ie_read", [op |-> "IsForkEnabled", name |-> name, block |-> blockNumber,
                         res |-> FALSE])

IE_Read(t) ==
    /\ pc[t] = "ie_read"
    /\ loc' = [loc EXCEPT ![t].res = IsForkEnabledResult(forkMap, loc[t].name, loc[t].block)]
    /\ Goto(t, "unlock")
    /\ UNCHANGED <<registry, ret, ovars, lock>>

\* GetForkBlock, lines 170-178.
LockGetForkBlock(t, name) ==
    Enter(t, "gf_read", [op |-> "GetForkBlock", name |-> name,
                         res |-> [block |-> 0, err |-> FALSE]])

GF_Read(t) ==
    /\ pc[t] = "gf_read"
    /\ loc' = [loc EXCEPT ![t].res = GetForkBlockResult(forkMap, loc[t].name)]
    /\ Goto(t, "unlock")
    /\ UNCHANGED <<registry, ret, ovars, lock>>

\* The call of goroutine t is on its way out by an error or a panic.
Failed(c) ==
    \/ c.op = "RegisterHandler" /\ c.err
    \/ c.op = "GetForkBlock" /\ c.res.err
    \/ c.op = "GetHandler" /\ c.res.panic

\* Mutant of Unlock: Unlock() written before each plain return instead of
\* deferred, so that an error return or a panic leaves with the lock held.
Unlock_NotDeferred(t) ==
    /\ pc[t] = "unlock"
    /\ lock' = IF Failed(loc[t]) THEN lock ELSE NoHolder
    /\ pc' = [pc EXCEPT ![t] = "idle"]
    /\ loc' = [loc EXCEPT ![t] = NoCall]
    /\ UNCHANGED <<registry, ret, ovars>>

\* The deferred fm.lock.Unlock(), then the return to the caller.
Unlock(t) ==
    /\ pc[t] = "unlock"
    /\ lock' = NoHolder
    /\ pc' = [pc EXCEPT ![t] = "idle"]
    /\ loc' = [loc EXCEPT ![t] = NoCall]
    /\ UNCHANGED <<registry, ret, ovars>>

NextConc ==
    \/ \E t \in Threads : Call(t)
    \/ \E t \in Threads, name \in ForkNames, fromBlock \in ConcBlocks :
          LockRegisterFork(t, name, fromBlock)
    \/ \E t \in Threads : RF_SetMap(t)
    \/ \E t \in Threads : RF_Search(t)
    \/ \E t \in Threads : RF_Append(t)
    \/ \E t \in Threads : RF_Copy(t)
    \/ \E t \in Threads : RF_Set(t)
    \/ \E t \in Threads, forkName \in ForkNames, handlerName \in HandlerNames,
          handler \in Handlers : LockRegisterHandler(t, forkName, handlerName, handler)
    \/ \E t \in Threads : RH_Fork(t)
    \/ \E t \in Threads : RH_Table(t)
    \/ \E t \in Threads, shared \in BOOLEAN : RH_Append(t, shared)
    \/ \E t \in Threads : RH_Copy(t)
    \/ \E t \in Threads : RH_Set(t)
    \/ \E t \in Threads : RH_Store(t)
    \/ \E t \in Threads, name \in HandlerNames, blockNumber \in ConcBlocks :
          LockGetHandler(t, name, blockNumber)
    \/ \E t \in Threads : GH_Read(t)
    \/ \E t \in Threads, name \in ForkNames : LockIsForkSupported(t, name)
    \/ \E t \in Threads : IS_Read(t)
    \/ \E t \in Threads, name \in ForkNames, blockNumber \in ConcBlocks :
          LockIsForkEnabled(t, name, blockNumber)
    \/ \E t \in Threads : IE_Read(t)
    \/ \E t \in Threads, name \in ForkNames : LockGetForkBlock(t, name)
    \/ \E t \in Threads : GF_Read(t)
    \/ \E t \in Threads : Unlock(t)

SpecConc == Init /\ [][NextConc]_vars

\* --------------------------------------------------- scheduling of callers
\* fm.lock.Lock() returning in goroutine t, for whichever operation it called.
Acquire(t) ==
    \/ \E name \in ForkNames, fromBlock \in ConcBlocks : LockRegisterFork(t, name, fromBlock)
    \/ \E forkName \in ForkNames, handlerName \in HandlerNames, handler \in Handlers :
          LockRegisterHandler(t, forkName, handlerName, handler)
    \/ \E name \in HandlerNames, blockNumber \in ConcBlocks : LockGetHandler(t, name, blockNumber)
    \/ \E name \in ForkNames : LockIsForkSupported(t, name)
    \/ \E name \in ForkNames, blockNumber \in ConcBlocks : LockIsForkEnabled(t, name, blockNumber)
    \/ \E name \in ForkNames : LockGetForkBlock(t, name)

\* The statements goroutine t runs between Lock() and the return.
Body(t) ==
    \/ RF_SetMap(t) \/ RF_Search(t) \/ RF_Append(t) \/ RF_Copy(t) \/ RF_Set(t)
    \/ RH_Fork(t) \/ RH_Table(t) \/ (\E shared \in BOOLEAN : RH_Append(t, shared))
    \/ RH_Copy(t) \/ RH_Set(t) \/ RH_Store(t)
    \/ GH_Read(t) \/ IS_Read(t) \/ IE_Read(t) \/ GF_Read(t)
    \/ Unlock(t)

\* The Go scheduler keeps running a goroutine that can run (weak fairness
\* of its statements), and sync.Mutex hands the lock to a waiter that has
\* been passed over (starvation mode), so a goroutine blocked in Lock()
\* while the mutex is released again and again gets it (strong fairness).
\* Nothing obliges a goroutine to make a call at all.
Fairness == \A t \in Threads : WF_vars(Body(t)) /\ SF_vars(Acquire(t))

SpecConcFair == SpecConc /\ Fairness

\* ------------------------------------------------- GetInstance, lines 55-76
\* Goroutines call GetInstance at any time, statement by statement, and use
\* the reference they got to register forks.

GI_Call(t) ==
    /\ gpc[t] = "idle"
    /\ gpc' = [gpc EXCEPT ![t] = "gi_lock"]
    /\ UNCHANGED <<forkManagerInstance, forkManagerInstanceLock, heap, gref, outsideInstance>>

\* forkManagerInstanceLock.Lock(), line 56.
GI_Lock(t) ==
    /\ gpc[t] = "gi_lock"
    /\ LockFree(forkManagerInstanceLock)
    /\ forkManagerInstanceLock' = t
    /\ gpc' = [gpc EXCEPT ![t] = "gi_check"]
    /\ UNCHANGED <<forkManagerInstance, heap, gref, outsideInstance>>

\* Mutant of GI_Check: no test, every call constructs.
GI_Check_NoTest(t) ==
    /\ gpc[t] = "gi_check"
    /\ gpc' = [gpc EXCEPT ![t] = "gi_new"]
    /\ UNCHANGED <<forkManagerInstance, forkManagerInstanceLock, heap, gref, outsideInstance>>

\* if forkManagerInstance == nil, line 59.
GI_Check(t) ==
    /\ gpc[t] = "gi_check"
    /\ gpc' = [gpc EXCEPT ![t] = IF forkManagerInstance = Nil THEN "gi_new" ELSE "gi_ret"]
    /\ UNCHANGED <<forkManagerInstance, forkManagerInstanceLock, heap, gref, outsideInstance>>

\* forkManagerInstance = &forkManager{...}, lines 60-72.
GI_New(t) ==
    /\ gpc[t] = "gi_new"
    /\ heap' = Append(heap, NewForkManager)
    /\ forkManagerInstance' = Len(heap) + 1
    /\ gpc' = [gpc EXCEPT ![t] = "gi_ret"]
    /\ UNCHANGED <<forkManagerInstanceLock, gref, outsideInstance>>

\* return forkManagerInstance, line 75: the result is read.
GI_Return(t) ==
    /\ gpc[t] = "gi_ret"
    /\ gref' = [gref EXCEPT ![t] = forkManagerInstance]
    /\ gpc' = [gpc EXCEPT ![t] = "gi_unlock"]
    /\ UNCHANGED <<forkManagerInstance, forkManagerInstanceLock, heap, outsideInstance>>

\* The deferred forkManagerInstanceLock.Unlock(), line 57.
GI_Unlock(t) ==
    /\ gpc[t] = "gi_unlock"
    /\ forkManagerInstanceLock' = NoHolder
    /\ gpc' = [gpc EXCEPT ![t] = "idle"]
    /\ UNCHANGED <<forkManagerInstance, heap, gref, outsideInstance>>

\* A goroutine registers a fork through the reference it holds (the call
\* runs under the object's own lock, lines 79-95).
GI_RegisterFork(t, name, fromBlock) ==
    /\ gpc[t] = "idle"
    /\ gref[t] # Nil
    /\ Len(heap[gref[t]].forks) < InstMaxForks
    /\ heap' = [heap EXCEPT ![gref[t]] =
                  [@ EXCEPT !.forkMap = RegisterForkMap(@, name, fromBlock),
                            !.forks = RegisterForkForks(@, name, fromBlock)]]
    /\ UNCHANGED <<forkManagerInstance, forkManagerInstanceLock, gpc, gref, outsideInstance>>

NextInst ==
    \/ \E t \in Threads : GI_Call(t)
    \/ \E t \in Threads : GI_Lock(t)
    \/ \E t \in Threads : GI_Check(t)
    \/ \E t \in Threads : GI_New(t)
    \/ \E t \in Threads : GI_Return(t)
    \/ \E t \in Threads : GI_Unlock(t)
    \/ \E t \in Threads, name \in ForkNames, fromBlock \in 0..InstMaxBlock :
          GI_RegisterFork(t, name, fromBlock)

SpecInst == Init /\ [][NextInst]_vars

\* -------------------------------------------------------- the decoder's callers
\* What callers hand to the decoders: well-formed objects filled with one
\* byte value, the same with an element missing, with one too many, with a
\* field of the wrong width, and streams of tagged and untagged objects.
Fills == 1..MaxFill
B(x) == Bytes(<<x>>)

HeaderElems(x) ==
    << Bytes(Rep(HashLength, x)), Bytes(Rep(HashLength, x)), Bytes(Rep(AddressLength, x)),
       Bytes(Rep(HashLength, x)), Bytes(Rep(HashLength, x)), Bytes(Rep(HashLength, x)),
       Bytes(Rep(BloomByteLength, x)), B(x), B(x), B(x), B(x), B(x), B(x),
       Bytes(Rep(HashLength, x)), B(x) >>
LegacyElems(x) ==
    << B(x), B(x), B(x), Bytes(Rep(AddressLength, x)), B(x), B(x), B(x), B(x), B(x) >>
StateElems(x) ==
    << B(x), Bytes(Rep(AddressLength, x)), B(x), Array(<<B(x)>>), B(x), B(x), B(x) >>
LogElems(x) == << Bytes(Rep(AddressLength, x)), Array(<<Bytes(Rep(HashLength, x))>>), B(x) >>
ReceiptElems(x) == << B(1), B(x), Bytes(Rep(BloomByteLength, x)), Array(<<Array(LogElems(x))>>) >>
BlockElems(x) ==
    << Array(HeaderElems(x)), Array(<<Array(LegacyElems(x))>>), Array(<<Array(HeaderElems(x))>>) >>

\* One element fewer, one more, a byte string in place of the list, and the
\* element at position k one byte short.
Short(e) == Array(SubSeq(e, 1, Len(e) - 1))
Long(e) == Array(Append(e, Bytes(<<>>)))
Narrow(e, k) == Array([e EXCEPT ![k] = Bytes(Tail(e[k].b))])
Malformed(e) == {Short(e), Long(e), B(1)}
\* The element at position k replaced.
WithElem(e, k, x) == Array([e EXCEPT ![k] = x])
\* What stands in the place of a recipient: nothing, 19 and 21 bytes, a
\* list, a list holding an address.
Recipients ==
    {Bytes(<<>>), Bytes(Rep(AddressLength - 1, 1)), Bytes(Rep(AddressLength + 1, 1)),
     Array(<<>>), Array(<<Bytes(Rep(AddressLength, 1))>>)}
\* What stands in the place of a receipt's root or status: 32 bytes, 3
\* bytes, nothing, a list.
RootOrStatus ==
    {Bytes(Rep(HashLength, MaxFill)), Bytes(Rep(3, MaxFill)), Bytes(<<>>), Array(<<>>)}

HeaderValues ==
    {Array(HeaderElems(x)) : x \in Fills}
    \cup Malformed(HeaderElems(1))
    \cup {Narrow(HeaderElems(MaxFill + 1), 2), Narrow(HeaderElems(MaxFill + 1), 15)}
LegacyValues ==
    {Array(LegacyElems(x)) : x \in Fills} \cup Malformed(LegacyElems(1))
        \cup {WithElem(LegacyElems(1), 4, to) : to \in Recipients}
        \cup {WithElem(LegacyElems(1), 5, Array(<<>>))}
StateValues ==
    {Array(StateElems(1))} \cup Malformed(StateElems(1))
        \cup {WithElem(StateElems(1), 2, to) : to \in Recipients}
        \cup {WithElem(StateElems(1), 3, Array(<<>>))}
LogValues == {Array(LogElems(1)), Narrow(LogElems(1), 1)} \cup Malformed(LogElems(1))
ReceiptValues ==
    {Array(ReceiptElems(1))} \cup Malformed(ReceiptElems(1))
        \cup {WithElem(ReceiptElems(1), 1, f) : f \in RootOrStatus}
        \cup {Array([ReceiptElems(1) EXCEPT ![1] = Bytes(Rep(3, MaxFill)), ![3] = Bytes(<<>>)])}
        \cup {WithElem(ReceiptElems(1), 4, Array(<<Array(LogElems(1)), Short(LogElems(1))>>))}
BlockValues ==
    {Array(BlockElems(1)), Array([BlockElems(1) EXCEPT ![2] = Array(<<B(TxTypeState)>>)])}
    \cup {WithElem(BlockElems(1), 3, Array(<<Array(HeaderElems(1)), Short(HeaderElems(1))>>))}
    \cup Malformed(BlockElems(1))

\* A byte that is the tag of no transaction type.
UnknownType == TxTypeState + 1
TransactionsValues ==
    LET L == Array(LegacyElems(1))
        S == Array(StateElems(1))
        T == B(TxTypeState)
    IN  {Array(s) : s \in {<<>>, <<L>>, <<L, T, S>>, <<T, S>>, <<T, S, L>>, <<T>>, <<L, T>>,
                           <<B(TxTypeLegacy), L>>, <<B(UnknownType), S>>, <<Bytes(<<>>), L>>,
                           <<T, L>>, <<S>>, <<L, Short(LegacyElems(1))>>}}
        \cup {B(1)}
ReceiptsValues ==
    LET R == Array(ReceiptElems(1))
        T == B(TxTypeState)
    IN  {Array(s) : s \in {<<>>, <<R>>, <<R, T, R>>, <<T, R>>, <<T>>, <<R, T>>,
                           <<B(UnknownType), R>>, <<Bytes(<<1, 1>>), R>>,
                           <<R, Short(ReceiptElems(1))>>}}
        \cup {B(1)}

\* Raw bytes: a legacy transaction (a list of 9 one-byte strings and an
\* empty recipient), a state transaction behind its type byte, lists of one
\* element, and inputs that are cut short. 128 is the empty string.
ListOf(n) == 192 + n
LegacyRaw(x) == <<ListOf(LegacyArity), x, x, x, 128, x, x, x, x, x>>
\* A receipt: a list of 262 bytes (249 1 6) holding a status, the gas, a
\* bloom of 256 bytes (185 1 0) and no logs.
ReceiptRaw(x) == <<249, 1, 6, 1, x, 185, 1, 0>> \o Rep(BloomByteLength, x) \o <<ListOf(0)>>
StateRaw(x) == <<ListOf(StateArity), x, 128, x, ListOf(0), x, x, x>>
RawInputs ==
    {LegacyRaw(x) : x \in Fills}
    \cup {<<TxTypeState>> \o StateRaw(x) : x \in Fills}
    \cup { <<>>, <<ListOf(0)>>, <<ListOf(1), TxTypeState>>, <<ListOf(1), 128>>,
           <<ListOf(2), TxTypeState>>, <<ListOf(1), ListOf(0)>>, <<TxTypeState>>,
           <<128>>, <<129, 128>>, <<RLPListMarker - 1>>,
           ReceiptRaw(1), <<TxTypeState>> \o ReceiptRaw(1), <<UnknownType>> \o ReceiptRaw(1),
           <<UnknownType>> \o StateRaw(1), <<TxTypeState>> \o LegacyRaw(1),
           <<TxTypeLegacy>> \o LegacyRaw(1), StateRaw(1) }

\* Targets: a new object, or one that holds an earlier decode.
LegacyZero == newTxPayload(TxTypeLegacy).p
StateZero == newTxPayload(TxTypeState).p
BlockTargets == {ZeroBlock, BlockUnmarshalRLPFrom(ZeroBlock, Array(BlockElems(1))).obj}
LegacyTargets ==
    {LegacyZero, LegacyUnmarshalRLPFrom(LegacyZero, Array(LegacyElems(MaxFill + 1))).obj}
StateTargets ==
    {StateZero, StateUnmarshalRLPFrom(StateZero, Array(StateElems(MaxFill + 1))).obj}
ReceiptTargets ==
    {ZeroReceipt, ReceiptUnmarshalRLPFrom(ZeroReceipt, Array(ReceiptElems(MaxFill + 1))).obj}
LogTargets == {ZeroLog, LogUnmarshalRLPFrom(ZeroLog, Array(LogElems(MaxFill + 1))).obj}

\* A call: the decoder, its target before, the input, and what it left.
CallOf(op, pre, in, out) == [op |-> op, pre |-> pre, in |-> in, out |-> out]

\* The calls callers make of the decoders that work on a target of their
\* own, each with its outcome.
BlockCalls ==
    {CallOf("Block", b, v, BlockUnmarshalRLPFrom(b, v)) : b \in BlockTargets, v \in BlockValues}
LegacyCalls ==
    {CallOf("LegacyTransaction", t, v, LegacyUnmarshalRLPFrom(t, v)) :
        t \in LegacyTargets, v \in LegacyValues}
StateCalls ==
    {CallOf("StateTransaction", t, v, StateUnmarshalRLPFrom(t, v)) :
        t \in StateTargets, v \in StateValues}
ReceiptCalls ==
    {CallOf("Receipt", r, v, ReceiptUnmarshalRLPFrom(r, v)) :
        r \in ReceiptTargets, v \in ReceiptValues}
LogCalls ==
    {CallOf("Log", l, v, LogUnmarshalRLPFrom(l, v)) : l \in LogTargets, v \in LogValues}
TransactionsCalls ==
    {CallOf("Transactions", <<>>, v, TransactionsUnmarshalRLPFrom(<<>>, v)) :
        v \in TransactionsValues}
ReceiptsCalls ==
    {CallOf("Receipts", <<>>, v, ReceiptsUnmarshalRLPFrom(<<>>, v)) : v \in ReceiptsValues}
RawReceiptsCalls ==
    {CallOf("Receipts.UnmarshalRLP", <<>>, input, ReceiptsUnmarshalRLP(<<>>, input)) :
        input \in RawInputs}
RawReceiptCalls ==
    {CallOf("Receipt.UnmarshalRLP", ZeroReceipt, input, ReceiptUnmarshalRLP(ZeroReceipt, input)) :
        input \in RawInputs}
RawTransactionCalls ==
    {CallOf("Transaction.UnmarshalRLP", ZeroTransaction, input,
            TransactionUnmarshalRLP(ZeroTransaction, input)) : input \in RawInputs}

\* The decoders that append to a collection of their target, each with a new
\* target and the inputs to decode.
Collections ==
    [Receipts |-> [new |-> <<>>, in |-> ReceiptsValues],
     Transactions |-> [new |-> <<>>, in |-> TransactionsValues],
     Receipt |-> [new |-> ZeroReceipt, in |-> ReceiptValues],
     Block |-> [new |-> ZeroBlock, in |-> BlockValues]]

DecodeInto(op, target, v) ==
    CASE op = "Receipts" -> ReceiptsUnmarshalRLPFrom(target, v)
      [] op = "Transactions" -> TransactionsUnmarshalRLPFrom(target, v)
      [] op = "Receipt" -> ReceiptUnmarshalRLPFrom(target, v)
      [] op = "Block" -> BlockUnmarshalRLPFrom(target, v)

\* Two calls of one decoder with the same value on one target, new before
\* the first call: once is what the first call left, out what the second
\* left on the target the first had written.
TwiceCalls ==
    [op \in DOMAIN Collections |->
        {[op |-> "Twice", of |-> op, pre |-> Collections[op].new, in |-> v,
          once |-> DecodeInto(op, Collections[op].new, v),
          out |-> DecodeInto(op, DecodeInto(op, Collections[op].new, v).obj, v)] :
            v \in Collections[op].in}]

\* h.UnmarshalRLPFrom(p, v) on the header the caller keeps; its first
\* call is on a new one (h := &Header{}).
DecodeHeader(v) ==
    LET h == IF hdr = NoHeader THEN ZeroHeader ELSE hdr
        r == HeaderUnmarshalRLPFrom(h, v)
    IN  /\ hdr' = r.obj
        /\ dec' = CallOf("Header", h, v, r)
        /\ UNCHANGED <<pool, outsideDecoder>>

\* b.UnmarshalRLPFrom(p, v).
DecodeBlock ==
    \E c \in BlockCalls :
        /\ dec' = c
        /\ UNCHANGED <<pool, hdr, outsideDecoder>>

\* t.UnmarshalRLPFrom(p, v) of a LegacyTransaction.
DecodeLegacy ==
    \E c \in LegacyCalls :
        /\ dec' = c
        /\ UNCHANGED <<pool, hdr, outsideDecoder>>

\* t.UnmarshalRLPFrom(p, v) of a StateTransaction.
DecodeState ==
    \E c \in StateCalls :
        /\ dec' = c
        /\ UNCHANGED <<pool, hdr, outsideDecoder>>

\* r.UnmarshalRLPFrom(p, v) of a Receipt.
DecodeReceipt ==
    \E c \in ReceiptCalls :
        /\ dec' = c
        /\ UNCHANGED <<pool, hdr, outsideDecoder>>

\* l.UnmarshalRLPFrom(p, v).
DecodeLog ==
    \E c \in LogCalls :
        /\ dec' = c
        /\ UNCHANGED <<pool, hdr, outsideDecoder>>

\* tt.UnmarshalRLPFrom(p, v) on new Transactions.
DecodeTransactions ==
    \E c \in TransactionsCalls :
        /\ dec' = c
        /\ UNCHANGED <<pool, hdr, outsideDecoder>>

\* r.UnmarshalRLPFrom(p, v) on new Receipts.
DecodeReceipts ==
    \E c \in ReceiptsCalls :
        /\ dec' = c
        /\ UNCHANGED <<pool, hdr, outsideDecoder>>

\* x.UnmarshalRLPFrom(p, v) called a second time with the same value on the
\* target of the first call.
DecodeTwice ==
    \E op \in DOMAIN Collections : \E c \in TwiceCalls[op] :
        /\ dec' = c
        /\ UNCHANGED <<pool, hdr, outsideDecoder>>

\* r.UnmarshalRLP(input) on new Receipts, through UnmarshalRlp and the pool.
UnmarshalReceipts ==
    \E c \in RawReceiptsCalls :
        /\ pool.got < MaxCalls
        /\ pool' = [got |-> pool.got + c.out.got, put |-> pool.put + c.out.put]
        /\ dec' = [c EXCEPT !.out = c.out.out]
        /\ UNCHANGED <<hdr, outsideDecoder>>

\* t.UnmarshalRLP(input) on a new Transaction; got and put are the
\* parsers this call took and put back.
UnmarshalTransaction ==
    \E c \in RawTransactionCalls :
        /\ pool.got < MaxCalls
        /\ pool' = [got |-> pool.got + c.out.got, put |-> pool.put + c.out.put]
        /\ dec' = [op |-> c.op, pre |-> c.pre, in |-> c.in, out |-> c.out.out,
                   got |-> c.out.got, put |-> c.out.put]
        /\ UNCHANGED <<hdr, outsideDecoder>>

\* r.UnmarshalRLP(input) on a new Receipt.
UnmarshalReceipt ==
    \E c \in RawReceiptCalls :
        /\ pool.got < MaxCalls
        /\ pool' = [got |-> pool.got + c.out.got, put |-> pool.put + c.out.put]
        /\ dec' = [op |-> c.op, pre |-> c.pre, in |-> c.in, out |-> c.out.out,
                   got |-> c.out.got, put |-> c.out.put]
        /\ UNCHANGED <<hdr, outsideDecoder>>

NextDec ==
    \/ \E v \in HeaderValues : DecodeHeader(v)
    \/ DecodeBlock
    \/ DecodeLegacy
    \/ DecodeState
    \/ DecodeReceipt
    \/ DecodeLog
    \/ DecodeTransactions
    \/ DecodeReceipts
    \/ DecodeTwice
    \/ UnmarshalReceipts
    \/ UnmarshalTransaction
    \/ UnmarshalReceipt

SpecDec == Init /\ [][NextDec]_vars

\* ------------------------------------------------- extra-data fork handlers
\* consensus/polybft: the header's extra data, encoded and decoded by the
\* handler of the fork in force.

ExtraHandlerLondon == "ExtraHandlerLondon"
ExtraHandlerNikaragva == "ExtraHandlerNikaragva"
ExtraHandlers == {ExtraHandlerLondon, ExtraHandlerNikaragva}

\* The base fields that are encoded, in the order of their elements. The
\* block number belongs to the Extra and is no element of its encoding: the
\* London decoder asks for 5 elements and reads its one own field at
\* index 4, which leaves four elements to the base fields.
BaseFields == <<"Parent", "Validators", "Checkpoint", "Committed">>
BaseElements == Len(BaseFields)

\* A base field is absent (0), or a value; Dummy1 and Dummy2 are strings.
NoField == 0
ZeroExtra ==
    [BlockNumber |-> 0, Parent |-> NoField, Validators |-> NoField,
     Checkpoint |-> NoField, Committed |-> NoField, Dummy1 |-> <<>>, Dummy2 |-> <<>>]

\* extraMarshalBaseFields(extra, ar, ar.NewArray()): one element per base
\* field, an empty list for an absent field.
extraMarshalBaseFields(extra) ==
    [i \in 1..BaseElements |->
        IF extra[BaseFields[i]] = NoField THEN Array(<<>>)
        ELSE Array(<<Bytes(<<extra[BaseFields[i]]>>)>>)]

\* One base field from its element: a list, empty for an absent field.
BaseField(v) ==
    IF v.t # "array" THEN [val |-> NoField, err |-> Err("type")]
    ELSE IF v.a = <<>> THEN [val |-> NoField, err |-> NoErr]
    ELSE IF v.a[1].t # "bytes" \/ Len(v.a) # 1 \/ Len(v.a[1].b) > 8
         THEN [val |-> NoField, err |-> Err("type")]
    ELSE [val |-> BigEndian(v.a[1].b), err |-> NoErr]

\* The base fields from element i on, written into extra one after the
\* other up to the first error.
RECURSIVE UnmarshalBaseFrom(_, _, _)
UnmarshalBaseFrom(extra, elems, i) ==
    IF i > BaseElements THEN [extra |-> extra, err |-> NoErr]
    ELSE LET g == BaseField(elems[i])
         IN  IF g.err # NoErr THEN [extra |-> extra, err |-> g.err]
             ELSE UnmarshalBaseFrom([extra EXCEPT ![BaseFields[i]] = g.val], elems, i + 1)

\* extraUnmarshalBaseFields(extra, v, expectedElements): the elements of v,
\* which must be exactly expectedElements, and the base fields decoded
\* from the first of them.
extraUnmarshalBaseFields(extra, v, expectedElements) ==
    IF v.t # "array" THEN [extra |-> extra, elems |-> <<>>, err |-> Err("type")]
    ELSE IF Len(v.a) # expectedElements
         THEN [extra |-> extra, elems |-> <<>>,
               err |-> ArityErr(<<expectedElements, Len(v.a)>>)]
    ELSE LET b == UnmarshalBaseFrom(extra, v.a, 1)
         IN  [extra |-> b.extra, elems |-> v.a, err |-> b.err]

\* fastrlp: Arena.NewString and Value.GetString.
NewString(s) == Bytes(s)
GetString(v) ==
    IF v.t = "bytes" THEN [val |-> v.b, err |-> NoErr]
    ELSE [val |-> <<>>, err |-> Err("type")]

LondonElements == 5
NikaragvaElements == 6

\* ExtraHandlerLondon.MarshalRLPWith that leaves Dummy1 out.
LondonMarshalRLPWith_NoDummy1(extra) ==
    Array(extraMarshalBaseFields(extra))

\* ExtraHandlerLondon.MarshalRLPWith: the base fields, then Dummy1.
LondonMarshalRLPWith(extra) ==
    Array(Append(extraMarshalBaseFields(extra), NewString(extra.Dummy1)))

\* ExtraHandlerLondon.UnmarshalRLPWith: five elements, Dummy1 the fifth
\* (elems[4]); the field is assigned before the error is looked at.
LondonUnmarshalRLPWith(extra, v) ==
    LET b == extraUnmarshalBaseFields(extra, v, LondonElements)
        d1 == GetString(b.elems[LondonElements])
    IN  IF b.err # NoErr THEN [extra |-> b.extra, err |-> b.err]
        ELSE [extra |-> [b.extra EXCEPT !.Dummy1 = d1.val],
              err |-> IF d1.err # NoErr THEN Err("dummy1 bytes") ELSE NoErr]

\* ExtraHandlerNikaragva.MarshalRLPWith: the base fields, Dummy1, Dummy2.
NikaragvaMarshalRLPWith(extra) ==
    Array(Append(Append(extraMarshalBaseFields(extra), NewString(extra.Dummy1)),
                 NewString(extra.Dummy2)))

\* ExtraHandlerNikaragva.UnmarshalRLPWith: six elements, Dummy1 the fifth
\* and Dummy2 the sixth (elems[4], elems[5]).
NikaragvaUnmarshalRLPWith(extra, v) ==
    LET b == extraUnmarshalBaseFields(extra, v, NikaragvaElements)
        d1 == GetString(b.elems[NikaragvaElements - 1])
        d2 == GetString(b.elems[NikaragvaElements])
        e1 == [b.extra EXCEPT !.Dummy1 = d1.val]
    IN  IF b.err # NoErr THEN [extra |-> b.extra, err |-> b.err]
        ELSE IF d1.err # NoErr THEN [extra |-> e1, err |-> Err("dummy1 bytes")]
        ELSE [extra |-> [e1 EXCEPT !.Dummy2 = d2.val],
              err |-> IF d2.err # NoErr THEN Err("dummy2 bytes") ELSE NoErr]

\* ExtraHandlerNikaragva.ValidateAdditional that asks for Dummy1 only.
NikaragvaValidateAdditional_Dummy1Only(extra, header) ==
    [extra |-> extra, header |-> header,
     err |-> IF extra.Dummy1 = <<>> THEN Err("dummy1 is empty") ELSE NoErr]

\* ExtraHandlerLondon.ValidateAdditional: an error if Dummy1 is empty. The
\* Extra and the header are read, never assigned; they are returned here
\* as the call leaves them.
LondonValidateAdditional(extra, header) ==
    [extra |-> extra, header |-> header,
     err |-> IF extra.Dummy1 = <<>> THEN Err("dummy1 is empty") ELSE NoErr]

\* ExtraHandlerNikaragva.ValidateAdditional: an error if Dummy1 is empty,
\* else an error if Dummy2 is empty.
NikaragvaValidateAdditional(extra, header) ==
    [extra |-> extra, header |-> header,
     err |-> IF extra.Dummy1 = <<>> THEN Err("dummy1 is empty")
             ELSE IF extra.Dummy2 = <<>> THEN Err("dummy2 is empty")
             ELSE NoErr]

\* &Signature{}: a signature that is there and empty.
EmptySignature == 1

\* ExtraHandlerAdditionalLondon.GetIbftExtraClean: a new Extra built from
\* the fields the literal names; Dummy2 is not among them and stays the
\* zero string. The argument is only read.
LondonGetIbftExtraClean(extra) ==
    [new |-> [BlockNumber |-> extra.BlockNumber, Parent |-> extra.Parent,
              Validators |-> extra.Validators, Checkpoint |-> extra.Checkpoint,
              Committed |-> EmptySignature, Dummy1 |-> extra.Dummy1,
              Dummy2 |-> <<>>],
     extra |-> extra]

\* ExtraHandlerAdditionalNikaragva.GetIbftExtraClean: the same with Dummy2.
NikaragvaGetIbftExtraClean(extra) ==
    [new |-> [BlockNumber |-> extra.BlockNumber, Parent |-> extra.Parent,
              Validators |-> extra.Validators, Checkpoint |-> extra.Checkpoint,
              Committed |-> EmptySignature, Dummy1 |-> extra.Dummy1,
              Dummy2 |-> extra.Dummy2],
     extra |-> extra]

\* The handler the registry hands out, called through its interface.
ValidateAdditional(handler, extra, header) ==
    IF handler = ExtraHandlerLondon THEN LondonValidateAdditional(extra, header)
    ELSE NikaragvaValidateAdditional(extra, header)

GetIbftExtraClean(handler, extra) ==
    IF handler = ExtraHandlerLondon THEN LondonGetIbftExtraClean(extra)
    ELSE NikaragvaGetIbftExtraClean(extra)

MarshalRLPWith(handler, extra) ==
    IF handler = ExtraHandlerLondon THEN LondonMarshalRLPWith(extra)
    ELSE NikaragvaMarshalRLPWith(extra)

UnmarshalRLPWith(handler, extra, v) ==
    IF handler = ExtraHandlerLondon THEN LondonUnmarshalRLPWith(extra, v)
    ELSE NikaragvaUnmarshalRLPWith(extra, v)

\* Callers: Extra values with all base fields absent or all present and
\* different from one another, and every pair of strings.
ExtraStrings == {<<>>} \cup {<<x>> : x \in 1..MaxExtra}
MkExtra(b, d1, d2) ==
    IF b = 0 THEN [ZeroExtra EXCEPT !.Dummy1 = d1, !.Dummy2 = d2]
    ELSE [BlockNumber |-> b, Parent |-> 10 * b + 1, Validators |-> 10 * b + 2,
          Checkpoint |-> 10 * b + 3, Committed |-> 10 * b + 4,
          Dummy1 |-> d1, Dummy2 |-> d2]
Extras == {MkExtra(b, d1, d2) : b \in 0..MaxExtra, d1, d2 \in ExtraStrings}

\* What a decoder is handed: every encoding of either handler, the same
\* with an element fewer or more, with a list in place of the last string,
\* and a byte string in place of the list.
Encodings == {MarshalRLPWith(h, x) : h \in ExtraHandlers, x \in Extras}
ExtraValues ==
    Encodings
        \cup {Short(v.a) : v \in Encodings}
        \cup {Long(v.a) : v \in Encodings}
        \cup {Array([v.a EXCEPT ![Len(v.a)] = Array(<<>>)]) : v \in Encodings}
        \cup {Bytes(<<1>>)}
ExtraTargets == {ZeroExtra, MkExtra(MaxExtra, <<MaxExtra>>, <<MaxExtra>>)}

MarshalExtra(handler, extra) ==
    /\ ext' = [op |-> "MarshalRLPWith", handler |-> handler, in |-> extra,
               out |-> MarshalRLPWith(handler, extra)]
    /\ UNCHANGED outsideExtra

UnmarshalExtra(handler, extra, v) ==
    /\ ext' = [op |-> "UnmarshalRLPWith", handler |-> handler, pre |-> extra,
               in |-> v, out |-> UnmarshalRLPWith(handler, extra, v)]
    /\ UNCHANGED outsideExtra

\* The headers a validation is handed: only header.Number is read.
ExtraHeaders == {[Number |-> n] : n \in 0..MaxExtra}

ValidateExtra(handler, extra, header) ==
    /\ ext' = [op |-> "ValidateAdditional", handler |-> handler, in |-> extra,
               header |-> header, out |-> ValidateAdditional(handler, extra, header)]
    /\ UNCHANGED outsideExtra

CleanExtra(handler, extra) ==
    /\ ext' = [op |-> "GetIbftExtraClean", handler |-> handler, in |-> extra,
               out |-> GetIbftExtraClean(handler, extra)]
    /\ UNCHANGED outsideExtra

NextExtra ==
    \/ \E h \in ExtraHandlers, x \in Extras : MarshalExtra(h, x)
    \/ \E h \in ExtraHandlers, x \in ExtraTargets, v \in ExtraValues :
          UnmarshalExtra(h, x, v)
    \/ \E h \in ExtraHandlers, x \in Extras, header \in ExtraHeaders :
          ValidateExtra(h, x, header)
    \/ \E h \in ExtraHandlers, x \in Extras : CleanExtra(h, x)

SpecExtra == Init /\ [][NextExtra]_vars

\* ------------------------------------------ the rootchain deploy command
\* runCommand and deployContracts, one run of the command. The main
\* goroutine goes from position to position (dep.pc); each deployment and
\* each initializer runs in a goroutine of its own under an errgroup. The
\* calls that leave the process (JSON RPC, transactions, the disk) succeed
\* or fail as the caller of the step chooses.

\* allContracts with the token contracts in front, lines 343-432.
ContractNames ==
    <<"RootERC20", "RootERC721", "RootERC1155", "StateSender", "CheckpointManager", "BLS",
      "BN256G2", "ExitHelper", "RootERC20Predicate", "ERC20Template", "RootERC721Predicate",
      "ERC721Template", "RootERC1155Predicate", "ERC1155Template", "CustomSupernetManager">>

\* The names with an entry in initializersMap, lines 102-139.
initializersMap ==
    {"CustomSupernetManager", "ExitHelper", "RootERC20Predicate", "RootERC721Predicate",
     "RootERC1155Predicate"}

\* The names with an entry in metadataPopulatorMap, lines 53-99.
metadataPopulatorMap == {ContractNames[k] : k \in 1..Len(ContractNames)}

\* The contracts of one run: the first MaxContracts of these, in the order
\* of allContracts. A token with an address given on the command line
\* (params.rootERC20TokenAddr) is not deployed.
Chosen ==
    <<"RootERC20", "ExitHelper", "StateSender", "CustomSupernetManager", "RootERC20Predicate",
      "CheckpointManager">>

RECURSIVE Select(_, _)
Select(s, S) ==
    IF s = <<>> THEN <<>>
    ELSE (IF Head(s) \in S THEN <<Head(s)>> ELSE <<>>) \o Select(Tail(s), S)

allContracts(existing) ==
    Select(ContractNames,
           {Chosen[k] : k \in 1..MaxContracts} \ (IF existing THEN {"RootERC20"} ELSE {}))

\* errgroup: the first error a goroutine returns is kept.
FirstError(old, new) == IF old = NoError THEN new ELSE old

Tasks == 1..Len(dep.contracts)

\* runCommand up to the call of deployContracts, lines 218-261: the chain
\* configuration is read, the client made, and the command aborts when the
\* contracts are already deployed.
RunCommand(ok, existing) ==
    /\ dep.pc = "idle"
    /\ dep' = [dep EXCEPT !.pc = IF ok THEN "setup" ELSE "end", !.existing = existing]
    /\ UNCHANGED outsideDeploy

\* deployContracts up to the errgroup, lines 311-435: relayer, key, the
\* address of an existing token put into the rootchain config, the list of
\* contracts and the results slice.
Setup(ok) ==
    /\ dep.pc = "setup"
    /\ dep' = IF ~ok
              THEN [dep EXCEPT !.pc = "returned", !.out = "err"]
              ELSE LET cs == allContracts(dep.existing)
                   IN  [dep EXCEPT !.pc = "spawn", !.i = 1, !.contracts = cs,
                                   !.populated = IF dep.existing THEN {"RootERC20"} ELSE {},
                                   !.task = [k \in 1..Len(cs) |-> "none"],
                                   !.receipt = [k \in 1..Len(cs) |-> "none"],
                                   !.results = [k \in 1..Len(cs) |-> NoResult],
                                   !.itask = [k \in 1..Len(cs) |-> "none"]]
    /\ UNCHANGED outsideDeploy

\* One turn of the loop of line 437: g.Go starts the goroutine of contract i.
Spawn ==
    /\ dep.pc = "spawn"
    /\ dep' = IF dep.i > Len(dep.contracts)
              THEN [dep EXCEPT !.pc = "wait"]
              ELSE [dep EXCEPT !.task[dep.i] = "start", !.i = @ + 1]
    /\ UNCHANGED outsideDeploy

\* The select of a deployment goroutine, lines 442-445: it returns
\* ctx.Err() when the group's context is done.
T_Select(k) ==
    /\ dep.task[k] = "start"
    /\ dep' = IF dep.ctx
              THEN [dep EXCEPT !.task[k] = "err", !.gerr = FirstError(@, "context")]
              ELSE [dep EXCEPT !.task[k] = "send"]
    /\ UNCHANGED outsideDeploy

\* SendTransaction and the tests of its receipt, lines 451-458. An error
\* return cancels the group's context.
T_Receipt(k, receipt) ==
    /\ dep.task[k] = "send"
    /\ dep' = IF receipt = "success"
              THEN [dep EXCEPT !.task[k] = "write", !.receipt[k] = receipt]
              ELSE [dep EXCEPT !.task[k] = "err", !.receipt[k] = receipt,
                               !.gerr = FirstError(@, receipt), !.ctx = TRUE]
    /\ UNCHANGED outsideDeploy

\* Mutant of T_Write: the result goes to the first empty slot, as if it
\* were appended.
T_Write_FirstFree(k) ==
    /\ dep.task[k] = "write"
    /\ LET free == CHOOSE j \in Tasks :
                      /\ dep.results[j] = NoResult
                      /\ \A l \in 1..(j - 1) : dep.results[l] # NoResult
       IN  dep' = [dep EXCEPT !.task[k] = "ok", !.results[free] = [Name |-> dep.contracts[k]]]
    /\ UNCHANGED outsideDeploy

\* results[i] = newDeployContractsResult(contract.name, ...) and return
\* nil, lines 460-464, with the goroutine's own i and contract.
T_Write(k) ==
    /\ dep.task[k] = "write"
    /\ dep' = [dep EXCEPT !.task[k] = "ok", !.results[k] = [Name |-> dep.contracts[k]]]
    /\ UNCHANGED outsideDeploy

\* The results that are not nil, in the order of the slice.
RECURSIVE Filled(_)
Filled(rs) ==
    IF rs = <<>> THEN <<>>
    ELSE (IF Head(rs) = NoResult THEN <<>> ELSE <<Head(rs)>>) \o Filled(Tail(rs))

\* Mutant of WaitDeploy: the error of the group is dropped.
WaitDeploy_ErrorDropped ==
    /\ dep.pc = "wait"
    /\ \A k \in Tasks : dep.task[k] \in {"ok", "err"}
    /\ dep' = [dep EXCEPT !.ctx = TRUE, !.pc = "populate", !.i = 1]
    /\ UNCHANGED outsideDeploy

\* g.Wait() of line 469 returns once every goroutine has returned, with
\* the first error; on an error the results that are there are written
\* out and the function returns it, lines 470-480.
WaitDeploy ==
    /\ dep.pc = "wait"
    /\ \A k \in Tasks : dep.task[k] \in {"ok", "err"}
    /\ dep' = IF dep.gerr # NoError
              THEN [dep EXCEPT !.ctx = TRUE, !.pc = "returned", !.out = "err",
                               !.reported = Filled(dep.results)]
              ELSE [dep EXCEPT !.ctx = TRUE, !.pc = "populate", !.i = 1]
    /\ UNCHANGED outsideDeploy

\* One turn of the loop of lines 483-492: the populator of the result's
\* name sets the address in the rootchain config. A nil result is a nil
\* dereference.
Populate ==
    /\ dep.pc = "populate"
    /\ dep' = IF dep.i > Len(dep.results)
              THEN [dep EXCEPT !.pc = "ispawn", !.i = 1]
              ELSE IF dep.results[dep.i] = NoResult
              THEN [dep EXCEPT !.pc = "end", !.out = "panic"]
              ELSE IF dep.results[dep.i].Name \notin metadataPopulatorMap
              THEN [dep EXCEPT !.pc = "returned", !.out = "err"]
              ELSE [dep EXCEPT !.populated = @ \cup {dep.results[dep.i].Name}, !.i = @ + 1]
    /\ UNCHANGED outsideDeploy

\* One turn of the loop of lines 496-512: a contract with an initializer
\* gets a goroutine of the new group.
InitSpawn ==
    /\ dep.pc = "ispawn"
    /\ dep' = IF dep.i > Len(dep.contracts)
              THEN [dep EXCEPT !.pc = "iwait"]
              ELSE IF dep.contracts[dep.i] \in initializersMap
              THEN [dep EXCEPT !.itask[dep.i] = "start", !.i = @ + 1]
              ELSE [dep EXCEPT !.i = @ + 1]
    /\ UNCHANGED outsideDeploy

\* An initializer goroutine, lines 504-511: it returns cmdCtx.Err() when
\* the command's context is done, else it calls the initializer.
I_Run(k, ok) ==
    /\ dep.itask[k] = "start"
    /\ dep' = IF dep.cmdCtx
              THEN [dep EXCEPT !.itask[k] = "cancelled", !.ierr = FirstError(@, "context")]
              ELSE IF ok
              THEN [dep EXCEPT !.itask[k] = "ok"]
              ELSE [dep EXCEPT !.itask[k] = "failed", !.ierr = FirstError(@, "initializer")]
    /\ UNCHANGED outsideDeploy

\* g.Wait() of lines 514-516.
InitWait ==
    /\ dep.pc = "iwait"
    /\ \A k \in Tasks : dep.itask[k] # "start"
    /\ dep' = IF dep.ierr # NoError
              THEN [dep EXCEPT !.pc = "returned", !.out = "err"]
              ELSE [dep EXCEPT !.pc = "register"]
    /\ UNCHANGED outsideDeploy

\* registerChainOnStakeManager, lines 519-522.
Register(ok) ==
    /\ dep.pc = "register"
    /\ dep' = IF ok
              THEN [dep EXCEPT !.pc = "checkpoint", !.registered = "ok"]
              ELSE [dep EXCEPT !.pc = "returned", !.registered = "err", !.out = "err"]
    /\ UNCHANGED outsideDeploy

\* initializeCheckpointManager and the return, lines 525-530.
Checkpoint(ok) ==
    /\ dep.pc = "checkpoint"
    /\ dep' = IF ok
              THEN [dep EXCEPT !.pc = "returned", !.checkpoint = "ok", !.out = "ok"]
              ELSE [dep EXCEPT !.pc = "returned", !.checkpoint = "err", !.out = "err"]
    /\ UNCHANGED outsideDeploy

\* runCommand after deployContracts, lines 263-296: an error ends the
\* command; else the bridge configuration is set and the latest block
\* number asked for.
AfterDeploy(ok) ==
    /\ dep.pc = "returned"
    /\ dep' = [dep EXCEPT !.pc = IF dep.out = "ok" /\ ok THEN "write" ELSE "end"]
    /\ UNCHANGED outsideDeploy

\* cmdHelper.WriteGenesisConfigToDisk, lines 298-302.
WriteGenesisConfigToDisk(ok) ==
    /\ dep.pc = "write"
    /\ dep' = [dep EXCEPT !.pc = "end", !.written = ok]
    /\ UNCHANGED outsideDeploy

\* The command's context is cancelled from outside (a signal); the
\* contexts made from it are done with it.
Cancel ==
    /\ dep.pc \notin {"idle", "end"}
    /\ ~dep.cmdCtx
    /\ dep' = [dep EXCEPT !.cmdCtx = TRUE, !.ctx = TRUE]
    /\ UNCHANGED outsideDeploy

NextDeploy ==
    \/ \E ok \in BOOLEAN, existing \in BOOLEAN : RunCommand(ok, existing)
    \/ \E ok \in BOOLEAN : Setup(ok)
    \/ Spawn
    \/ \E k \in Tasks : T_Select(k)
    \/ \E k \in Tasks, receipt \in {"success", "failed", "senderr"} : T_Receipt(k, receipt)
    \/ \E k \in Tasks : T_Write(k)
    \/ WaitDeploy
    \/ Populate
    \/ InitSpawn
    \/ \E k \in Tasks, ok \in BOOLEAN : I_Run(k, ok)
    \/ InitWait
    \/ \E ok \in BOOLEAN : Register(ok)
    \/ \E ok \in BOOLEAN : Checkpoint(ok)
    \/ \E ok \in BOOLEAN : AfterDeploy(ok)
    \/ \E ok \in BOOLEAN : WriteGenesisConfigToDisk(ok)
    \/ Cancel

SpecDeploy == Init /\ [][NextDeploy]_vars

\* ------------------------------------------------------------------ claims

LookupOps == {"GetHandler", "IsForkSupported", "IsForkEnabled", "GetForkBlock"}

Sorted(s) ==
    \A i, j \in 1..Len(s) : i < j => s[i].FromBlockNumber <= s[j].FromBlockNumber

HeightsAtMost(hs, h) ==
    {hs[i].FromBlockNumber : i \in {k \in 1..Len(hs) : hs[k].FromBlockNumber <= h}}

MaxOf(S) == CHOOSE x \in S : \A y \in S : y <= x

C2_TiesInInsertionOrder ==
    [][/\ ret'.op = "RegisterFork" =>
            \E idx \in 1..Len(forks') :
               /\ forks'[idx] = Fork(ret'.name, ret'.block)
               /\ forks = [k \in 1..Len(forks) |-> forks'[IF k < idx THEN k ELSE k + 1]]
               /\ \A k \in 1..Len(forks') :
                     (k # idx /\ forks'[k].FromBlockNumber = ret'.block) => k < idx
       /\ (/\ ret'.op = "RegisterHandler"
           /\ ~ret'.err
           /\ ret'.name \in DOMAIN handlersMap) =>
            LET hs == handlersMap[ret'.name]
                hs2 == handlersMap'[ret'.name]
                e == ForkHandler(forkMap[ret'.fork].FromBlockNumber, ret'.handler)
            IN  \E idx \in 1..Len(hs2) :
                   /\ hs2[idx] = e
                   /\ hs = [k \in 1..Len(hs) |-> hs2[IF k < idx THEN k ELSE k + 1]]
                   /\ \A k \in 1..Len(hs2) :
                         (k # idx /\ hs2[k].FromBlockNumber = e.FromBlockNumber) => k < idx
      ]_vars

\* C3: the fork list and every capability's table are sorted by activation
\* height, non-decreasing.
C3_Sorted ==
    /\ Sorted(forks)
    /\ \A c \in DOMAIN handlersMap : Sorted(handlersMap[c])

\* A fork and a handler were each inserted below an entry of greater height.
C3_Witness ==
    /\ Len(forks) = 3
    /\ forks[1].FromBlockNumber < forks[2].FromBlockNumber
    /\ forks[2].FromBlockNumber < forks[3].FromBlockNumber
    /\ forks[2].Name = LondonFork
    /\ forks[3].Name = LondonFork
    /\ "extra" \in DOMAIN handlersMap
    /\ Len(handlersMap["extra"]) = 2
    /\ handlersMap["extra"][1].FromBlockNumber < handlersMap["extra"][2].FromBlockNumber
    /\ ret.op = "RegisterHandler"
    /\ ret.fork = BaseFork

\* C4: the base fork is always registered with activation height 0:
\* GetForkBlock(BaseFork) is 0 without error and IsForkEnabled(BaseFork, h)
\* holds at every height h.
C4_BaseForkAtZero ==
    /\ GetForkBlockResult(forkMap, BaseFork) = [block |-> 0, err |-> FALSE]
    /\ \A h \in Blocks : IsForkEnabledResult(forkMap, BaseFork, h)

\* C6: a GetHandler call for a capability without a table panics and hands
\* back no handler.
C6_NoHandlersPanics ==
    (ret.op = "GetHandler" /\ ret.name \notin DOMAIN handlersMap)
    => (ret.res.panic /\ ret.res.handler = NilHandler)

\* GetHandler panicked on the empty handler map with a second fork registered.
C6_Witness ==
    /\ ret.op = "GetHandler"
    /\ ret.name \notin DOMAIN handlersMap
    /\ ret.res.panic
    /\ LondonFork \in DOMAIN forkMap

\* C7: RegisterHandler with a fork name that is not in the fork map returns
\* an error and leaves the fork map, the fork list and the handler map as
\* they were.
C7_UnknownForkRejected ==
    [][(ret'.op = "RegisterHandler" /\ ret'.fork \notin DOMAIN forkMap)
       => (ret'.err /\ UNCHANGED registry)]_vars

\* RegisterHandler failed for the unregistered fork, no table was created.
C7_Witness ==
    /\ ret.op = "RegisterHandler"
    /\ ret.err
    /\ ret.fork = LondonFork
    /\ LondonFork \notin DOMAIN forkMap
    /\ handlersMap = <<>>

\* C8: IsForkEnabled(n, h) is true exactly when n is registered and its
\* activation height is <= h, and false at every height for a name that is
\* not registered; the most recent IsForkEnabled call returned just that.
C8_EnabledIffRegisteredAndReached ==
    /\ \A n \in ForkNames, h \in Blocks :
          /\ IsForkEnabledResult(forkMap, n, h)
               <=> (/\ IsForkSupportedResult(forkMap, n)
                    /\ GetForkBlockResult(forkMap, n).block <= h)
          /\ ~IsForkSupportedResult(forkMap, n) => ~IsForkEnabledResult(forkMap, n, h)
    /\ ret.op = "IsForkEnabled" =>
          (ret.res <=> (/\ IsForkSupportedResult(forkMap, ret.name)
                        /\ GetForkBlockResult(forkMap, ret.name).block <= ret.block))

\* IsForkEnabled returned false for a registered fork below its height.
C8_Witness ==
    /\ ret.op = "IsForkEnabled"
    /\ ret.name = LondonFork
    /\ LondonFork \in DOMAIN forkMap
    /\ forkMap[LondonFork].FromBlockNumber = 2
    /\ ret.block = 1
    /\ ret.res = FALSE

\* C9: GetForkBlock(n) is the height of the most recent RegisterFork(n, _)
\* without error (every RegisterFork sets it, no other call changes it), it
\* is (0, error) for a name that is not registered, and the call leaves the
\* registry as it was.
C9_GetForkBlock ==
    [][/\ ret'.op = "RegisterFork" =>
            GetForkBlockResult(forkMap', ret'.name) = [block |-> ret'.block, err |-> FALSE]
       /\ \A n \in ForkNames :
            (ret'.op # "RegisterFork" \/ ret'.name # n) =>
                GetForkBlockResult(forkMap', n) = GetForkBlockResult(forkMap, n)
       /\ ret'.op = "GetForkBlock" =>
            /\ UNCHANGED registry
            /\ ret'.res = GetForkBlockResult(forkMap, ret'.name)
            /\ ret'.name \in DOMAIN forkMap => ~ret'.res.err
            /\ ret'.name \notin DOMAIN forkMap => ret'.res = [block |-> 0, err |-> TRUE]
      ]_vars

\* GetForkBlock returned the height of the second registration of a fork.
C9_Witness ==
    /\ ret.op = "GetForkBlock"
    /\ ret.name = LondonFork
    /\ ret.res = [block |-> 1, err |-> FALSE]
    /\ Len(forks) = 3
    /\ forks[2] = Fork(LondonFork, 1)
    /\ forks[3] = Fork(LondonFork, 2)

\* C10: a lookup leaves the fork map, the fork list and the handler map as
\* they were; the GetHandler call just made, made again on the registry it
\* left behind, returns the same handler; and two GetHandler calls in a row
\* with the same arguments return the same.
C10_LookupsChangeNothing ==
    [][ret'.op \in LookupOps =>
          /\ UNCHANGED registry
          /\ ret'.op = "GetHandler" =>
                GetHandlerResult(handlersMap', ret'.name, ret'.block) = ret'.res
          /\ (/\ ret.op = "GetHandler"
              /\ ret'.op = "GetHandler"
              /\ ret'.name = ret.name
              /\ ret'.block = ret.block) => ret'.res = ret.res
      ]_vars

\* GetHandler returned a handler from a table with two heights.
C10_Witness ==
    /\ ret.op = "GetHandler"
    /\ ~ret.res.panic
    /\ ret.name \in DOMAIN handlersMap
    /\ Len(handlersMap[ret.name]) = 2
    /\ handlersMap[ret.name][1].FromBlockNumber < handlersMap[ret.name][2].FromBlockNumber

\* The steps between Lock() and Unlock().
InCall(t) == pc[t] \notin {"idle", "lock"}

\* The steps at which a call reads the fork list, the fork map or a table.
ReadSteps == {"rf_search", "rh_fork", "rh_table", "gh_read", "is_read", "ie_read", "gf_read"}

\* No insertion is under way in s: sorted, and no zero entry.
Whole(s, zero) == Sorted(s) /\ \A i \in 1..Len(s) : s[i] # zero

\* What the call of goroutine t does when run in one piece on the registry
\* it found when it got the lock.
SerialEffect(t) ==
    LET c == loc[t]
        p == c.pre
    IN  CASE c.op = "RegisterFork" ->
               /\ forkMap = RegisterForkMap(p.forkMap, c.name, c.block)
               /\ forks = RegisterForkForks(p.forks, c.name, c.block)
               /\ handlersMap = p.handlersMap
          [] c.op = "RegisterHandler" ->
               /\ handlersMap = RegisterHandlerMap(p.forkMap, p.handlersMap, c.fork, c.name,
                                                   c.handler)
               /\ c.err = RegisterHandlerErr(p.forkMap, c.fork)
               /\ forkMap = p.forkMap
               /\ forks = p.forks
          [] c.op = "GetHandler" ->
               /\ c.res = GetHandlerResult(p.handlersMap, c.name, c.block)
               /\ registry = <<p.forkMap, p.forks, p.handlersMap>>
          [] c.op = "IsForkSupported" ->
               /\ c.res = IsForkSupportedResult(p.forkMap, c.name)
               /\ registry = <<p.forkMap, p.forks, p.handlersMap>>
          [] c.op = "IsForkEnabled" ->
               /\ c.res = IsForkEnabledResult(p.forkMap, c.name, c.block)
               /\ registry = <<p.forkMap, p.forks, p.handlersMap>>
          [] c.op = "GetForkBlock" ->
               /\ c.res = GetForkBlockResult(p.forkMap, c.name)
               /\ registry = <<p.forkMap, p.forks, p.handlersMap>>
          [] OTHER -> FALSE

\* C5: with concurrent callers, at most one goroutine is between Lock() and
\* Unlock(), and it holds the lock; whenever a call reads the registry, the
\* fork list and every table are sorted and hold no zero placeholder; and
\* when a call reaches its Unlock(), the registry and the call's result are
\* what the call yields when run in one piece on the registry it found when
\* it got the lock (the calls take effect in the order they got the lock).
C5_CallsAreAtomic ==
    /\ \A t, u \in Threads : (InCall(t) /\ InCall(u)) => t = u
    /\ \A t \in Threads : InCall(t) => lock = t
    /\ \A t \in Threads : pc[t] \in ReadSteps =>
          /\ Whole(forks, EmptyFork)
          /\ \A c \in DOMAIN handlersMap : Whole(handlersMap[c], EmptyForkHandler)
          /\ pc[t] # "rf_search" =>
                registry = <<loc[t].pre.forkMap, loc[t].pre.forks, loc[t].pre.handlersMap>>
    /\ \A t \in Threads : pc[t] = "unlock" => SerialEffect(t)

\* One goroutine is in the middle of an insertion into the fork list (the
\* zero placeholder is in it) while the other waits in Lock() for its call.
C5_Witness ==
    /\ pc["t1"] = "rf_copy"
    /\ forks[Len(forks)] = EmptyFork
    /\ pc["t2"] = "lock"
    /\ lock = "t1"
    /\ "extra" \in DOMAIN handlersMap
    /\ Len(handlersMap["extra"]) = 2

\* C11: every operation gives the registry lock back on every way out (the
\* plain return, the error return of RegisterHandler and GetForkBlock, the
\* panic of GetHandler): a goroutine that is not inside a call never holds
\* the lock, the holder is always inside its call, and a goroutine waiting
\* in Lock() gets the lock in the end.
C11_LockAlwaysReleased ==
    /\ [](\A t \in Threads : lock = t <=> InCall(t))
    /\ \A t \in Threads : (pc[t] = "lock") ~> (lock = t)

\* One goroutine waits for the lock while the other is about to leave
\* GetHandler by its panic; and one waits behind a failed RegisterHandler.
C11_Witness ==
    \E t, u \in Threads :
        /\ pc[t] = "lock"
        /\ lock = u
        /\ pc[u] = "unlock"
        /\ loc[u].op = "GetHandler"
        /\ loc[u].res.panic


\* C12: however concurrent GetInstance calls interleave, one forkManager is
\* constructed at most, by the first call to get the lock and with the base
\* fork at height 0 in list and map and no handlers; every call returns
\* the reference of that one object, so callers share its registrations.
C12_OneInstance ==
    /\ [](/\ Len(heap) <= 1
          /\ forkManagerInstance = Len(heap)
          /\ \A t \in Threads : gref[t] # Nil => gref[t] = forkManagerInstance
          /\ \A t \in Threads : gpc[t] = "gi_unlock" => gref[t] # Nil)
    /\ [][Len(heap') > Len(heap) =>
            /\ forkManagerInstance = Nil
            /\ heap' = <<NewForkManager>>
            /\ \A t \in Threads : gref[t] = Nil]_vars

\* Both goroutines have called GetInstance, one while the other was inside
\* it, and a fork registered through one reference is in the object the
\* other reference names.
C12_Witness ==
    \E t, u \in Threads :
        /\ t # u
        /\ gref[t] # Nil
        /\ gpc[u] = "gi_unlock"
        /\ Len(heap[gref[u]].forks) = 2

\* C13: every UnmarshalRlp call takes one parser from the pool and puts it
\* back once before it is over, so that after any sequence of decode calls
\* as many parsers have been put back as were taken.
C13_PoolBalanced == pool.put = pool.got

\* C14: Transactions.UnmarshalRLPFrom and Receipts.UnmarshalRLPFrom answer
\* every element list, a list that ends in a type tag included, with
\* success or an error, never with a panic.
C14_ScanNeverPanics == dec.op \in {"Transactions", "Receipts"} => ~dec.out.panic

\* The types a scan gives to the objects of a stream: a byte string is the
\* tag of the object behind it (a string that is not one byte is no tag of
\* any type), a list is a legacy object.
NoType == 0 - 1

RECURSIVE StreamTypes(_)
StreamTypes(a) ==
    IF a = <<>> THEN <<>>
    ELSE IF Head(a).t = "bytes"
         THEN <<IF Len(Head(a).b) = 1 THEN Head(a).b[1] ELSE NoType>>
                  \o (IF Len(a) > 1 THEN StreamTypes(Tail(Tail(a))) ELSE <<>>)
         ELSE <<TxTypeLegacy>> \o StreamTypes(Tail(a))

TypedStream == Array(<<Array(LegacyElems(1)), B(TxTypeState), Array(StateElems(1))>>)

\* C15: a collection is decoded by scanning: a one-byte string is taken as
\* the type of the object at the next position, a list is decoded in place
\* as a legacy object. The stream [legacy, tag, typed payload] gives two
\* transactions, the first legacy and the second of the tag's type with
\* the payload behind the tag, and a decoded stream that begins with a
\* list begins with a legacy object.
C15_ScanByTags ==
    /\ dec.op \in {"Transactions", "Receipts"} /\ dec.out.err = NoErr /\ ~dec.out.panic =>
          /\ Len(dec.out.obj) = Len(StreamTypes(dec.in.a))
          /\ \A i \in 1..Len(dec.out.obj) :
                IF dec.op = "Transactions"
                THEN dec.out.obj[i].Payload.type = StreamTypes(dec.in.a)[i]
                ELSE dec.out.obj[i].TransactionType = StreamTypes(dec.in.a)[i]
          /\ dec.in.a # <<>> /\ dec.in.a[1].t = "array" =>
                IF dec.op = "Transactions"
                THEN dec.out.obj[1].Payload.type = TxTypeLegacy
                ELSE dec.out.obj[1].TransactionType = TxTypeLegacy
    /\ dec.op = "Transactions" /\ dec.in = TypedStream =>
          /\ dec.out.err = NoErr
          /\ Len(dec.out.obj) = 2
          /\ dec.out.obj[1].Payload =
                LegacyUnmarshalRLPFrom(LegacyZero, dec.in.a[1]).obj
          /\ dec.out.obj[2].Payload =
                StateUnmarshalRLPFrom(StateZero, dec.in.a[3]).obj
          /\ dec.out.obj[2].Payload.type = dec.in.a[2].b[1]

C15_Witness ==
    /\ dec.op = "Transactions"
    /\ dec.in = TypedStream
    /\ Len(dec.out.obj) = 2
    /\ dec.out.obj[2].Payload.Signatures # <<>>

\* C16: a Header or Transaction decode that succeeds has computed the
\* object's hash once, after the last field (the hash is that of the
\* decoded fields); one that fails has not computed it. This for
\* Header.UnmarshalRLPFrom, for every transaction of
\* Transactions.UnmarshalRLPFrom and for Transaction.UnmarshalRLP.
C16_HashedOnceOnSuccess ==
    /\ dec.op = "Header" =>
          IF dec.out.err = NoErr
          THEN dec.out.hashed = 1 /\ hdr.Hash = HashOf(HeaderContent(hdr))
          ELSE dec.out.hashed = 0 /\ hdr.Hash = dec.pre.Hash
    /\ dec.op = "Transactions" =>
          /\ dec.out.hashed = Len(dec.out.obj)
          /\ \A i \in 1..Len(dec.out.obj) :
                /\ dec.out.obj[i].hashed = 1
                /\ dec.out.obj[i].Hash = HashOf(dec.out.obj[i].Payload)
    /\ dec.op = "Transaction.UnmarshalRLP" =>
          IF dec.out.err = NoErr
          THEN dec.out.obj.hashed = 1 /\ dec.out.obj.Hash = HashOf(dec.out.obj.Payload)
          ELSE dec.out.obj.hashed = 0

\* C17: the cached hash of a Header is the hash of its fields: after a
\* Header.UnmarshalRLPFrom call on a header that holds decoded data, also
\* one that fails after it has overwritten fields, the hash is that of the
\* fields as they are now, or unset.
C17_HashOfCurrentFields ==
    dec.op = "Header" /\ dec.pre.Hash # NoHash =>
        hdr.Hash \in {HashOf(HeaderContent(hdr)), NoHash}

\* The object decoders and the element count each requires.
ArityOf ==
    [Header |-> HeaderArity, Block |-> BlockArity, LegacyTransaction |-> LegacyArity,
     StateTransaction |-> StateArity, Receipt |-> ReceiptArity, Log |-> LogArity]

WrongCount ==
    /\ dec.op \in DOMAIN ArityOf
    /\ dec.in.t = "array"
    /\ Len(dec.in.a) # ArityOf[dec.op]

\* C18: a decode of a Header, Block, legacy or state transaction, Receipt
\* or Log from a list of any other length than the 15, 3, 9, 7, 4 or 3
\* elements it requires (one fewer and one more too) fails, and has
\* written no field of its target.
C18_WrongCountFailsUnwritten ==
    WrongCount =>
        /\ dec.out.err # NoErr
        /\ ~dec.out.panic
        /\ dec.out.writes = 0
        /\ dec.out.obj = dec.pre
        /\ dec.op = "Header" => hdr = dec.pre

\* A header that holds decoded data is handed a list of 16 elements.
C18_Witness ==
    /\ dec.op = "Header"
    /\ dec.in.t = "array"
    /\ Len(dec.in.a) = HeaderArity + 1
    /\ dec.pre.Hash # NoHash
    /\ dec.out.err.kind = "arity"

\* C19: the error of each of the six object decoders for a wrong element
\* count names the required count and the count found.
C19_ErrorNamesBothCounts ==
    WrongCount => dec.out.err.says = <<ArityOf[dec.op], Len(dec.in.a)>>

\* The element count stated for each variant.
ElementsOf == (ExtraHandlerLondon :> 5) @@ (ExtraHandlerNikaragva :> 6)

C21_RoundTrip ==
    ext.op = "UnmarshalRLPWith" =>
        \A x \in Extras :
            ext.in = MarshalRLPWith(ext.handler, x) =>
                ext.out.err = NoErr /\ ext.out.extra = x

\* C22: GetIbftExtraClean of either variant returns a new Extra with the
\* empty signature as Committed, the input's block number, parent,
\* validators and checkpoint, and the input's Dummy1 and Dummy2; the input
\* is as it was.
C22_CleanKeepsForkFields ==
    ext.op = "GetIbftExtraClean" =>
        /\ ext.out.new.Committed = EmptySignature
        /\ ext.out.new.BlockNumber = ext.in.BlockNumber
        /\ ext.out.new.Parent = ext.in.Parent
        /\ ext.out.new.Validators = ext.in.Validators
        /\ ext.out.new.Checkpoint = ext.in.Checkpoint
        /\ ext.out.new.Dummy1 = ext.in.Dummy1
        /\ ext.out.new.Dummy2 = ext.in.Dummy2
        /\ ext.out.extra = ext.in

\* C23: London's ValidateAdditional fails exactly when Dummy1 is empty,
\* whatever Dummy2 is; Nikaragva's fails exactly when Dummy1 or Dummy2 is
\* empty; either leaves the Extra and the header as they were.
C23_ValidateAdditional ==
    ext.op = "ValidateAdditional" =>
        /\ ext.handler = ExtraHandlerLondon =>
              (ext.out.err # NoErr <=> ext.in.Dummy1 = <<>>)
        /\ ext.handler = ExtraHandlerNikaragva =>
              (ext.out.err # NoErr <=> (ext.in.Dummy1 = <<>> \/ ext.in.Dummy2 = <<>>))
        /\ ext.out.extra = ext.in
        /\ ext.out.header = ext.header

\* Nikaragva refuses an Extra whose Dummy1 is set and whose Dummy2 is not.
C23_Witness ==
    /\ ext.op = "ValidateAdditional"
    /\ ext.handler = ExtraHandlerNikaragva
    /\ ext.in.Dummy1 # <<>>
    /\ ext.in.Dummy2 = <<>>
    /\ ext.out.err # NoErr

\* C24: a receipt whose first field is a byte string of any other length
\* than 32 or 1 decodes, if its other three fields do, with the root left
\* alone and the status zero; 32 bytes set the root, one byte sets the
\* status to that byte.
C24_ReceiptRootOrStatus ==
    dec.op = "Receipt" /\ dec.in.t = "array" /\ Len(dec.in.a) = ReceiptArity
        /\ dec.in.a[1].t = "bytes" =>
        LET first == dec.in.a[1].b
        IN  /\ ReceiptUnmarshalRLPFrom(dec.pre, WithElem(dec.in.a, 1, B(1))).err = NoErr
                  => dec.out.err = NoErr
            /\ Len(first) = HashLength =>
                  dec.out.obj.Root = first /\ dec.out.obj.Status = dec.pre.Status
            /\ Len(first) = 1 =>
                  dec.out.obj.Status = <<first[1]>> /\ dec.out.obj.Root = dec.pre.Root
            /\ Len(first) \notin {HashLength, 1} =>
                  dec.out.obj.Status = <<0>> /\ dec.out.obj.Root = dec.pre.Root

\* A receipt that holds a status is decoded from a list whose first field
\* is three bytes long.
C24_Witness ==
    /\ dec.op = "Receipt"
    /\ dec.in.t = "array" /\ Len(dec.in.a) = ReceiptArity
    /\ dec.in.a[1].t = "bytes" /\ Len(dec.in.a[1].b) = 3
    /\ dec.pre.Status = <<1>>
    /\ dec.out.err = NoErr
    /\ dec.out.obj.Status = <<0>>

\* The position of the recipient among the elements of a transaction.
ToAt == [LegacyTransaction |-> 4, StateTransaction |-> 2]

\* C25: in a legacy and in a state transaction the recipient is set
\* exactly when its element is a byte string of 20 bytes; for anything
\* else (empty, another length, a list) it is reset to none, and a decode
\* that succeeds with an address in that place succeeds with anything in
\* that place.
C25_RecipientOnlyIfAddress ==
    dec.op \in DOMAIN ToAt /\ dec.in.t = "array" /\ Len(dec.in.a) = ArityOf[dec.op] =>
        LET k == ToAt[dec.op]
            e == dec.in.a[k]
            isAddr == e.t = "bytes" /\ Len(e.b) = AddressLength
        IN  /\ dec.out.writes >= k =>
                  dec.out.obj.To = IF isAddr THEN e.b ELSE NilAddress
            /\ PayloadUnmarshalRLPFrom(
                   dec.pre, WithElem(dec.in.a, k, Bytes(Rep(AddressLength, 1)))).err = NoErr
                  => dec.out.err = NoErr /\ dec.out.writes = ArityOf[dec.op]

\* A legacy transaction that holds a recipient is decoded from a list with
\* a list in the recipient's place.
C25_Witness ==
    /\ dec.op = "LegacyTransaction"
    /\ dec.in.t = "array" /\ Len(dec.in.a) = LegacyArity
    /\ dec.in.a[4].t = "array"
    /\ dec.pre.To # NilAddress
    /\ dec.out.err = NoErr
    /\ dec.out.obj.To = NilAddress

\* The first byte that opens a byte string with a length prefix.
RLPStringMarker == RLPListMarker - 64

\* Transaction.UnmarshalRLP and Receipt.UnmarshalRLP with every first
\* byte below limit taken as a type: a byte that is no type ends the call
\* with an error before a parser is taken; else the bytes behind the type
\* are decoded as an object of that type; an input without a type byte is
\* decoded whole as a legacy object.
TopLevelByFirstByte(limit) ==
    dec.op \in {"Transaction.UnmarshalRLP", "Receipt.UnmarshalRLP"} =>
        LET tagged == Len(dec.in) > 0 /\ dec.in[1] < limit
            type == IF tagged THEN dec.in[1] ELSE TxTypeLegacy
            rest == IF tagged THEN Tail(dec.in) ELSE dec.in
        IN  IF tagged /\ ToTransactionType(dec.in[1]).err # NoErr
            THEN /\ dec.out.err # NoErr
                 /\ dec.got = 0
                 /\ dec.out.obj = dec.pre
            ELSE IF dec.op = "Transaction.UnmarshalRLP"
            THEN LET u == UnmarshalRlp("Payload.UnmarshalRLPFrom", newTxPayload(type).p, rest)
                 IN  /\ dec.got = 1
                     /\ dec.out.err = u.out.err
                     /\ dec.out.obj.Payload = u.out.obj
            ELSE LET u == UnmarshalRlp("Receipt.UnmarshalRLPFrom",
                                       [dec.pre EXCEPT !.TransactionType = type], rest)
                 IN  /\ dec.got = 1
                     /\ dec.out.err = u.out.err
                     /\ dec.out.obj = u.out.obj

\* C26 as stated: the first byte is a type exactly when it is below the
\* list marker.
C26_TagBelowListMarker == TopLevelByFirstByte(RLPListMarker)

\* C26: the first byte is a type exactly when it is a single-byte string
\* of the encoding, that is below the first string marker (0x80); an
\* input that begins with a string marker is decoded whole as a legacy
\* object, like one that begins with a list marker and like the empty one.
C26_TagBelowStringMarker == TopLevelByFirstByte(RLPStringMarker)

\* An input that begins with a string marker has been parsed as a whole.
C26_Witness ==
    /\ dec.op = "Transaction.UnmarshalRLP"
    /\ Len(dec.in) > 0
    /\ dec.in[1] >= RLPStringMarker /\ dec.in[1] < RLPListMarker
    /\ dec.got = 1
    /\ dec.out.err.kind = "type"

\* A goroutine inside GetHandler(c, h) whose table for c, as it stood when the
\* lock was taken, has entries and none with height <= h.
AllHandlersLater(t) ==
    /\ pc[t] = "unlock"
    /\ loc[t].op = "GetHandler"
    /\ loc[t].name \in DOMAIN loc[t].pre.handlersMap
    /\ loc[t].pre.handlersMap[loc[t].name] # <<>>
    /\ HeightsAtMost(loc[t].pre.handlersMap[loc[t].name], loc[t].block) = {}

\* C27: GetHandler(c, h) on a table for c in which every handler's height is
\* greater than h ends in a panic and returns no handler; the step that
\* leaves the panicking call frees the registry lock, and the call does
\* leave, so the lock does not stay with the panicked goroutine.
C27_NoEarlierHandlerPanics ==
    /\ [](\A t \in Threads :
            AllHandlersLater(t) => (loc[t].res.panic /\ loc[t].res.handler = NilHandler))
    /\ [][\A t \in Threads :
            (AllHandlersLater(t) /\ pc'[t] = "idle") => (lock = t /\ lock' = NoHolder)]_vars
    /\ \A t \in Threads : AllHandlersLater(t) ~> (lock # t)

\* A goroutine is about to leave GetHandler(c, 0), holding the lock, where
\* c's only handlers belong to forks that start after block 0.
C27_Witness ==
    \E t \in Threads :
        /\ AllHandlersLater(t)
        /\ loc[t].block = 0
        /\ loc[t].res.panic
        /\ lock = t

\* The table of capability c in handler map hm, empty when there is none.
TableOf(hm, c) == IF c \in DOMAIN hm THEN hm[c] ELSE <<>>

\* The heights of hs in the range H+1..h.
HeightsBetween(hs, H, h) == {x \in HeightsAtMost(hs, h) : x > H}

C29_HandlerHeightFixed ==
    [][/\ (ret'.op = "RegisterHandler" /\ ~ret'.err) =>
            LET hs == TableOf(handlersMap, ret'.name)
                hs2 == handlersMap'[ret'.name]
                e == ForkHandler(forkMap[ret'.fork].FromBlockNumber, ret'.handler)
            IN  \E idx \in 1..Len(hs2) :
                   /\ hs2[idx] = e
                   /\ hs = [k \in 1..Len(hs) |-> hs2[IF k < idx THEN k ELSE k + 1]]
       /\ (/\ ret'.op = "RegisterFork"
           /\ ret'.name \in DOMAIN forkMap
           /\ forkMap[ret'.name].FromBlockNumber # ret'.block) =>
            /\ GetForkBlockResult(forkMap', ret'.name) = [block |-> ret'.block, err |-> FALSE]
            /\ GetForkBlockResult(forkMap', ret'.name) # GetForkBlockResult(forkMap, ret'.name)
            /\ \A h \in Blocks :
                  IsForkEnabledResult(forkMap', ret'.name, h) = (ret'.block <= h)
            /\ \E h \in Blocks :
                  IsForkEnabledResult(forkMap', ret'.name, h)
                      # IsForkEnabledResult(forkMap, ret'.name, h)
            /\ handlersMap' = handlersMap
            /\ \A c \in HandlerNames, h \in Blocks :
                  GetHandlerResult(handlersMap', c, h) = GetHandlerResult(handlersMap, c, h)
      ]_vars

\* The london fork was registered again, at height 2, after a handler had
\* been registered for it at height 1: the handler's entry still says 1, a
\* height no fork has any more.
C29_Witness ==
    /\ ret = [op |-> "RegisterFork", name |-> LondonFork, block |-> 2]
    /\ forkMap[LondonFork].FromBlockNumber = 2
    /\ \E c \in DOMAIN handlersMap : \E k \in 1..Len(handlersMap[c]) :
          /\ handlersMap[c][k].FromBlockNumber = 1
          /\ \A n \in DOMAIN forkMap : forkMap[n].FromBlockNumber # 1

\* The positions of the fork list that hold an entry for name n.
EntriesOf(fs, n) == {k \in 1..Len(fs) : fs[k].Name = n}

\* C30: in every reachable state the fork list and the fork map agree: each
\* name of the map has a list entry with the map's height, each list entry
\* names a fork of the map, and the list holds exactly one entry per name,
\* so no entry with an old height stays behind when a name is registered
\* again.
C30_ListAgreesWithMap ==
    /\ \A n \in DOMAIN forkMap : \E k \in 1..Len(forks) : forks[k] = forkMap[n]
    /\ \A k \in 1..Len(forks) : forks[k].Name \in DOMAIN forkMap
    /\ \A n \in DOMAIN forkMap : Cardinality(EntriesOf(forks, n)) = 1

\* The collection a decoder appends to: the target itself, the logs of a
\* receipt, the uncles of a block.
Contents(op, obj) ==
    CASE op \in {"Receipts", "Transactions"} -> obj
      [] op = "Receipt" -> obj.Logs
      [] op = "Block" -> obj.Uncles

\* C31: decoding into a collection overwrites: two decodes of the same
\* value into one Receipts, Transactions, Receipt (its logs) or Block (its
\* uncles) target leave the contents one decode leaves, and a decode that
\* fails leaves the collection of its target as it was before the call,
\* with none of the elements it had decoded before the failure.
C31_DecodeOverwrites ==
    /\ (dec.op = "Twice" /\ dec.once.err = NoErr /\ ~dec.once.panic) =>
          /\ dec.out.err = NoErr
          /\ Contents(dec.of, dec.out.obj) = Contents(dec.of, dec.once.obj)
    /\ (dec.op = "Twice" /\ dec.once.err # NoErr) =>
          Contents(dec.of, dec.once.obj) = Contents(dec.of, dec.pre)
    /\ (dec.op \in DOMAIN Collections /\ dec.out.err # NoErr) =>
          Contents(dec.op, dec.out.obj) = Contents(dec.op, dec.pre)

\* Every deployment of the run has succeeded: each goroutine returned nil
\* with its result in place, and the group has no error.
AllDeployed ==
    /\ dep.gerr = NoError
    /\ \A k \in Tasks : dep.task[k] = "ok" /\ dep.results[k] # NoResult

\* An initializer has been called.
Invoked(k) == dep.itask[k] \in {"ok", "failed"}

\* The positions of the main goroutine from a phase on, up to the return
\* of deployContracts.
FromPopulate == {"populate", "ispawn", "iwait", "register", "checkpoint"}
FromInitializers == {"ispawn", "iwait", "register", "checkpoint"}

\* C32: deployContracts runs its phases in order, each only after all of
\* the phase before has succeeded: results are put into the rootchain
\* config only when every deployment has succeeded; initializers are
\* started and called only when every deployed contract's address is in
\* the config; registerChainOnStakeManager is called only when every
\* initializer has returned without error; initializeCheckpointManager only
\* after the registration succeeded; and the function returns without
\* error only after that. When a deployment has failed no initializer is
\* started or called, nothing is registered, the function returns an
\* error, and runCommand does not write the chain configuration.
C32_PhasesInOrder ==
    /\ (dep.pc \in FromPopulate \/ dep.populated \ {"RootERC20"} # {}) => AllDeployed
    /\ dep.populated \subseteq
          {dep.contracts[k] : k \in Tasks} \cup (IF dep.existing THEN {"RootERC20"} ELSE {})
    /\ (dep.pc \in FromInitializers \/ \E k \in Tasks : dep.itask[k] # "none") =>
          /\ AllDeployed
          /\ \A k \in Tasks : dep.contracts[k] \in dep.populated
    /\ (dep.pc \in {"register", "checkpoint"} \/ dep.registered # "none") =>
          /\ dep.ierr = NoError
          /\ \A k \in Tasks : dep.contracts[k] \in initializersMap <=> dep.itask[k] = "ok"
          /\ \A k \in Tasks : dep.contracts[k] \notin initializersMap <=> dep.itask[k] = "none"
    /\ (dep.pc = "checkpoint" \/ dep.checkpoint # "none") => dep.registered = "ok"
    /\ dep.out = "ok" => dep.checkpoint = "ok"
    /\ (dep.pc = "write" \/ dep.written) => dep.out = "ok"
    /\ (\E k \in Tasks : dep.task[k] = "err") =>
          /\ \A k \in Tasks : dep.itask[k] = "none"
          /\ dep.registered = "none" /\ dep.checkpoint = "none"
          /\ dep.pc \in {"returned", "end"} => dep.out = "err"
          /\ dep.pc \notin FromPopulate \cup {"write"}
          /\ ~dep.written

\* The command ended with the configuration written: every contract was
\* deployed and put into the config, an initializer ran, the chain was
\* registered and the checkpoint manager initialized.
C32_Witness ==
    /\ dep.pc = "end"
    /\ dep.written
    /\ ~dep.existing
    /\ AllDeployed
    /\ dep.populated = {dep.contracts[k] : k \in Tasks}
    /\ \E k \in Tasks : dep.itask[k] = "ok"
    /\ dep.registered = "ok"
    /\ dep.checkpoint = "ok"

\* One deployment failed while another succeeded, and the command ended
\* on the error.
C32_FailedDeployment ==
    /\ dep.pc = "end"
    /\ \E k, j \in Tasks : dep.task[k] = "err" /\ dep.task[j] = "ok"
    /\ dep.out = "err"

\* C33: the deployment goroutines write disjoint slots of results: a slot
\* changes only by the step of its own goroutine, from nil, to a result
\* with the name of its contract, after that goroutine's receipt reported
\* success, and no other slot changes in that step. When the wait has
\* returned without error every slot holds the result of its contract;
\* when it has returned an error, what is written out is exactly the
\* filled slots, which are those of the deployments that succeeded.
C33_DisjointSlots ==
    /\ [][\A k \in 1..Len(dep.results) :
            (Len(dep'.results) = Len(dep.results) /\ dep'.results[k] # dep.results[k]) =>
                /\ dep.task[k] = "write" /\ dep'.task[k] = "ok"
                /\ dep.receipt[k] = "success"
                /\ dep.results[k] = NoResult
                /\ dep'.results[k] = [Name |-> dep.contracts[k]]
                /\ \A j \in 1..Len(dep.results) : j # k => dep'.results[j] = dep.results[j]
          ]_vars
    /\ [](\A k \in Tasks :
            dep.results[k] # NoResult <=> (dep.task[k] = "ok" /\ dep.receipt[k] = "success"))
    /\ []((dep.pc \in FromPopulate \/ dep.out = "ok") =>
            \A k \in Tasks : dep.results[k] = [Name |-> dep.contracts[k]])
    /\ []((dep.gerr # NoError /\ dep.pc \in {"returned", "end"}) =>
            /\ dep.reported = Filled(dep.results)
            /\ {dep.reported[j].Name : j \in 1..Len(dep.reported)}
                  = {dep.contracts[k] : k \in {l \in Tasks : dep.receipt[l] = "success"}}
            /\ Len(dep.reported) = Cardinality({l \in Tasks : dep.receipt[l] = "success"}))

\* The wait returned an error with the first and the last slot filled and
\* one between them empty, and the two results were written out.
C33_Witness ==
    /\ dep.pc = "returned"
    /\ dep.gerr # NoError
    /\ Len(dep.results) = 3
    /\ dep.results[1] # NoResult
    /\ dep.results[2] = NoResult
    /\ dep.results[3] # NoResult
    /\ Len(dep.reported) = 2

====
